---- MODULE Spec2Model ----
(***************************************************************************)
(* Splitwise ledger: the split strategies, the expense service, the        *)
(* settlement service and the SQL store they share.                        *)
(*                                                                         *)
(* Money is counted in whole cents (the store's DECIMAL(10,2) columns).    *)
(* A service call is a sequence of store calls; every store call is one    *)
(* atomic SQL statement.  Spec lets the store calls of concurrent requests *)
(* interleave (net/http serves each request on its own goroutine and the   *)
(* services use no transaction); SpecSeq runs every service call to        *)
(* completion before the next one starts; SpecExpense does the same for    *)
(* CreateExpense and DeleteExpense alone, from every kind of request;       *)
(* SpecFail serves one request at a time and lets any store call fail;      *)
(* SpecStrategy runs one CreateExpense on an empty ledger, from a request   *)
(* drawn from a larger set, to examine what each strategy calculates.       *)
(***************************************************************************)
EXTENDS Integers, Sequences, FiniteSets, TLC

\* ------------------------------------------------------------------ bounds
NumUsers == 2
MaxExpenses == 2
MaxSplits == 2
MaxSettlements == 2
MaxAmount == 2
NumProcs == 2
MaxCalls == 4
MaxTotal == 4

Users == 1..NumUsers
Procs == 1..NumProcs
\* expense totals and exact amounts a request may carry, in cents
Amounts == 0..MaxAmount
\* dispute reasons a request may carry
Reasons == {"", "wrong amount"}

\* SplitParticipant.UserID of an entry that names no user (the zero value of
\* the field, no row of the users table); People are the ids a request may name
UnknownUser == 0
People == Users \cup {UnknownUser}

\* ------------------------------------------------------------ store values
\* settlement_id IS NULL
NoSettlement == 0
\* dispute_reason IS NULL
NoReason == "NULL"
\* a nil pointer result (sql.ErrNoRows mapped to nil, nil)
Nil == [nil |-> TRUE]
\* optional request fields (*float64)
None == <<>>
Some(v) == <<v>>

SplitStatusPending == "PENDING"
SplitStatusPaid == "PAID"
SplitStatusConfirmed == "CONFIRMED"
SplitStatusDisputed == "DISPUTED"

SettlementStatusPending == "PENDING"
SettlementStatusPaid == "PAID"
SettlementStatusConfirmed == "CONFIRMED"
SettlementStatusRejected == "REJECTED"

SplitTypeEven == "EVEN"
SplitTypePercentage == "PERCENTAGE"
SplitTypeExact == "EXACT"

\* ------------------------------------------------------------------- state
VARIABLES
    expenses,     \* table expenses:    id -> [payer] (no operation reads another column)
    splits,       \* table splits:      id -> [expense, borrower, amount, status, reason, settlement]
    settlements,  \* table settlements: sequence of [payer, receiver, amount, status], index = id
    expenseSeq,   \* last value of the SERIAL expenses.id
    splitSeq,     \* last value of the SERIAL splits.id
    calls,        \* per request slot: the call in flight with its locals, or Idle
    ncalls,       \* number of calls begun under Spec
    lockedAs,     \* history: for every locked split, the status it had when it was locked
    returned,     \* history: <<op, settlement id>> of every successful Confirm / Reject
    input,        \* SpecStrategy: the [payer, req] CreateExpense is called with, or NoInput
    outcome,      \* SpecStrategy: what that call computed and returned, or NotCalculated
    failed        \* SpecFail: [call, err] of the call whose store call failed last, as it
                  \* stood at that store call, and the error it returned ("pending"
                  \* until it returns), if no call has begun since; else NoFailure

vars == <<expenses, splits, settlements, expenseSeq, splitSeq, calls, ncalls, lockedAs,
          returned, input, outcome, failed>>

\* the store as one value, so that a service call can be run as a function of it
DB ==
    [expenses |-> expenses, splits |-> splits, settlements |-> settlements,
     expenseSeq |-> expenseSeq, splitSeq |-> splitSeq]

\* ----------------------------------------------------------------- helpers
RECURSIVE SortedIds(_)
SortedIds(S) ==
    IF S = {} THEN <<>>
    ELSE LET m == CHOOSE x \in S : \A y \in S : x <= y
         IN <<m>> \o SortedIds(S \ {m})

RECURSIVE SumSeq(_)
SumSeq(s) == IF s = <<>> THEN 0 ELSE Head(s) + SumSeq(Tail(s))

Abs(x) == IF x < 0 THEN -x ELSE x

\* math.Round(n/d): nearest integer, halves away from zero (d > 0)
Round(n, d) ==
    IF n >= 0 THEN (2 * n + d) \div (2 * d) ELSE -((2 * (-n) + d) \div (2 * d))

\* roundToTwoDecimals(n/d), the value n/d being in cents
roundToTwoDecimals(n, d) == Round(n, d)

\* ------------------------------------------------- split strategies (pure)
\* A participant is [userID, percentage, amount]; percentage is in hundredths
\* of a percent, amount in cents, each None or Some(v).

filterPayerMutant(payerID, participants) ==
    participants
filterPayer(payerID, participants) ==
    SelectSeq(participants, LAMBDA p : p.userID # payerID)

Ok(outputs) == [err |-> "OK", outputs |-> outputs]
Fail(err) == [err |-> err, outputs |-> <<>>]

EvenValidate(totalAmount, participants) ==
    IF Len(participants) = 0 THEN "NoParticipants"
    ELSE IF totalAmount < 0 THEN "NegativeAmount"
    ELSE "OK"

\* EvenCalculate without the rounding difference given to the first debtor
EvenCalculateMutant(totalAmount, payerID, participants) ==
    LET v == EvenValidate(totalAmount, participants)
        debtors == filterPayer(payerID, participants)
        sharePerPerson == roundToTwoDecimals(totalAmount, Len(participants))
    IN  IF v # "OK" THEN Fail(v)
        ELSE IF Len(debtors) = 0 THEN Ok(<<>>)
        ELSE Ok([i \in 1..Len(debtors) |->
                  [userID |-> debtors[i].userID, amountOwed |-> sharePerPerson]])

EvenCalculate(totalAmount, payerID, participants) ==
    LET v == EvenValidate(totalAmount, participants)
        debtors == filterPayer(payerID, participants)
        totalParticipants == Len(participants)
        sharePerPerson == roundToTwoDecimals(totalAmount, totalParticipants)
        totalDistributed == sharePerPerson * Len(debtors)
        expectedFromDebtors == totalAmount - sharePerPerson
        roundingDifference == roundToTwoDecimals(expectedFromDebtors - totalDistributed, 1)
    IN  IF v # "OK" THEN Fail(v)
        ELSE IF Len(debtors) = 0 THEN Ok(<<>>)
        ELSE Ok([i \in 1..Len(debtors) |->
                  [userID |-> debtors[i].userID,
                   amountOwed |->
                       IF i = 1 /\ roundingDifference # 0
                       THEN roundToTwoDecimals(sharePerPerson + roundingDifference, 1)
                       ELSE sharePerPerson]])

\* the first error the validation loop of a strategy meets, walking the list
FirstError(errs) ==
    IF \A i \in 1..Len(errs) : errs[i] = "OK" THEN "OK"
    ELSE errs[CHOOSE i \in 1..Len(errs) : errs[i] # "OK" /\ \A j \in 1..(i - 1) : errs[j] = "OK"]

PercentageCheck(p) ==
    IF p.percentage = None THEN "MissingPercentage"
    ELSE IF p.percentage[1] < 0 \/ p.percentage[1] > 10000 THEN "PercentageOutOfRange"
    ELSE "OK"

PercentageValidate(totalAmount, participants) ==
    LET bad == FirstError([i \in 1..Len(participants) |-> PercentageCheck(participants[i])])
        totalPercentage == SumSeq([i \in 1..Len(participants) |-> participants[i].percentage[1]])
    IN  IF Len(participants) = 0 THEN "NoParticipants"
        ELSE IF totalAmount < 0 THEN "NegativeAmount"
        ELSE IF bad # "OK" THEN bad
        \* math.Abs(totalPercentage-100) > 0.01, in hundredths of a percent
        ELSE IF Abs(totalPercentage - 10000) > 1 THEN "InvalidPercentages"
        ELSE "OK"

PercentageCalculate(totalAmount, payerID, participants) ==
    LET v == PercentageValidate(totalAmount, participants)
        debtors == filterPayer(payerID, participants)
        amounts == [i \in 1..Len(debtors) |->
                      roundToTwoDecimals(totalAmount * debtors[i].percentage[1], 10000)]
        totalCalculated == SumSeq(amounts)
        payerEntries == SelectSeq(participants, LAMBDA p : p.userID = payerID)
        payerPercentage == IF Len(payerEntries) = 0 THEN 0 ELSE payerEntries[1].percentage[1]
        expectedFromDebtors == roundToTwoDecimals(totalAmount * (10000 - payerPercentage), 10000)
        difference == roundToTwoDecimals(expectedFromDebtors - totalCalculated, 1)
    IN  IF v # "OK" THEN Fail(v)
        ELSE IF Len(debtors) = 0 THEN Ok(<<>>)
        ELSE Ok([i \in 1..Len(debtors) |->
                  [userID |-> debtors[i].userID,
                   amountOwed |->
                       IF i = Len(debtors) /\ difference # 0
                       THEN roundToTwoDecimals(amounts[i] + difference, 1)
                       ELSE amounts[i]]])

ExactCheck(p) ==
    IF p.amount = None THEN "MissingExactAmount"
    ELSE IF p.amount[1] < 0 THEN "NegativeAmount"
    ELSE "OK"

\* math.Abs(totalExact-totalAmount) > 0.01 is a comparison of float64 values:
\* totalExact is the float64 sum of the amounts in list order, and neither it,
\* nor totalAmount, nor 0.01 is a whole number of cents in binary.  When the
\* two are one cent apart the rounding of the operands decides the outcome.
\* OneCentOver holds the pairs <<sum, total>> in cents, one cent apart, whose
\* float64 difference exceeds 0.01 (sums up to 9 cents); for three lists of
\* amounts the accumulated sum is not the float64 nearest to their exact sum,
\* and the outcome is the one listed for the list and the total.
OneCentOver == {<<3, 4>>, <<4, 3>>, <<4, 5>>, <<5, 4>>, <<6, 7>>, <<7, 6>>, <<9, 10>>}
AccumulatedOver == {<<<<2, 3, 1>>, 5>>, <<<<3, 2, 1>>, 5>>, <<<<3, 3, 1>>, 8>>}
AccumulatedWithin == {<<<<3, 3, 1>>, 6>>}

ExceedsTolerance(amounts, totalAmount) ==
    LET totalExact == SumSeq(amounts)
    IN  IF Abs(totalExact - totalAmount) # 1 THEN Abs(totalExact - totalAmount) > 1
        ELSE IF <<amounts, totalAmount>> \in AccumulatedOver THEN TRUE
        ELSE IF <<amounts, totalAmount>> \in AccumulatedWithin THEN FALSE
        ELSE <<totalExact, totalAmount>> \in OneCentOver

ExactValidate(totalAmount, participants) ==
    LET bad == FirstError([i \in 1..Len(participants) |-> ExactCheck(participants[i])])
        amounts == [i \in 1..Len(participants) |-> participants[i].amount[1]]
    IN  IF Len(participants) = 0 THEN "NoParticipants"
        ELSE IF totalAmount < 0 THEN "NegativeAmount"
        ELSE IF bad # "OK" THEN bad
        ELSE IF ExceedsTolerance(amounts, totalAmount) THEN "InvalidExactAmounts"
        ELSE "OK"

\* ExactCalculate refusing a list without a debtor
ExactCalculateMutant(totalAmount, payerID, participants) ==
    LET v == ExactValidate(totalAmount, participants)
        debtors == filterPayer(payerID, participants)
    IN  IF v # "OK" THEN Fail(v)
        ELSE IF Len(debtors) = 0 THEN Fail("NoParticipants")
        ELSE Ok([i \in 1..Len(debtors) |->
                  [userID |-> debtors[i].userID,
                   amountOwed |-> roundToTwoDecimals(debtors[i].amount[1], 1)]])

ExactCalculate(totalAmount, payerID, participants) ==
    LET v == ExactValidate(totalAmount, participants)
        debtors == filterPayer(payerID, participants)
    IN  IF v # "OK" THEN Fail(v)
        ELSE IF Len(debtors) = 0 THEN Ok(<<>>)
        ELSE Ok([i \in 1..Len(debtors) |->
                  [userID |-> debtors[i].userID,
                   amountOwed |-> roundToTwoDecimals(debtors[i].amount[1], 1)]])

\* Factory.Create, then Strategy.Calculate on the strategy it returned
FactoryCalculate(splitType, totalAmount, payerID, participants) ==
    CASE splitType = SplitTypeEven -> EvenCalculate(totalAmount, payerID, participants)
      [] splitType = SplitTypePercentage -> PercentageCalculate(totalAmount, payerID, participants)
      [] splitType = SplitTypeExact -> ExactCalculate(totalAmount, payerID, participants)
      [] OTHER -> Fail("UnknownSplitType")

\* ------------------------------------------- store: expense.Repository (SQL)
\* Each operator is one SQL statement applied to the store value db.  A read
\* returns rows; a write returns [db, err] (and the new row where the code
\* scans one).

\* INSERT INTO expenses ...; CHECK (amount > 0)
RepoCreateExpense(db, payerID, req) ==
    IF req.amount > 0
    THEN [db |-> [db EXCEPT !.expenseSeq = @ + 1,
                            !.expenses = (db.expenseSeq + 1 :> [payer |-> payerID]) @@ @],
          err |-> "OK", id |-> db.expenseSeq + 1]
    ELSE [db |-> db, err |-> "StoreError", id |-> 0]

\* INSERT INTO splits ...; CHECK (amount_owed >= 0), expense_id REFERENCES expenses,
\* borrower_id REFERENCES users
CreateSplit(db, expenseID, borrowerID, amountOwed) ==
    IF amountOwed >= 0 /\ expenseID \in DOMAIN db.expenses /\ borrowerID \in Users
    THEN [db |-> [db EXCEPT !.splitSeq = @ + 1,
                            !.splits = (db.splitSeq + 1 :> [expense |-> expenseID,
                                                            borrower |-> borrowerID,
                                                            amount |-> amountOwed,
                                                            status |-> SplitStatusPending,
                                                            reason |-> NoReason,
                                                            settlement |-> NoSettlement]) @@ @],
          err |-> "OK"]
    ELSE [db |-> db, err |-> "StoreError"]

GetExpenseByID(db, id) ==
    IF id \in DOMAIN db.expenses THEN [id |-> id] @@ db.expenses[id] ELSE Nil

\* ... WHERE s.expense_id = $1 ORDER BY s.id
GetSplitsByExpenseID(db, expenseID) ==
    LET ids == SortedIds({d \in DOMAIN db.splits : db.splits[d].expense = expenseID})
    IN  [i \in 1..Len(ids) |-> [id |-> ids[i]] @@ db.splits[ids[i]]]

GetSplitByID(db, id) ==
    IF id \in DOMAIN db.splits THEN [id |-> id] @@ db.splits[id] ELSE Nil

\* UPDATE splits SET status = $2, dispute_reason = $3 WHERE id = $1
UpdateSplitStatusMutant(db, id, status, disputeReason) ==
    IF id \in DOMAIN db.splits
    THEN [db EXCEPT !.splits[id].status = status, !.splits[id].reason = disputeReason,
                    !.splits[id].settlement = NoSettlement]
    ELSE db
UpdateSplitStatus(db, id, status, disputeReason) ==
    IF id \in DOMAIN db.splits
    THEN [db EXCEPT !.splits[id].status = status, !.splits[id].reason = disputeReason]
    ELSE db

\* the WHERE clause shared by the outstanding-debt queries
OutstandingMutant(db, d, borrowerID, payerID) ==
    /\ db.splits[d].borrower = borrowerID
    /\ db.expenses[db.splits[d].expense].payer = payerID
    /\ db.splits[d].status \in {SplitStatusPending, SplitStatusPaid}
Outstanding(db, d, borrowerID, payerID) ==
    /\ db.splits[d].borrower = borrowerID
    /\ db.expenses[db.splits[d].expense].payer = payerID
    /\ db.splits[d].status \in {SplitStatusPending, SplitStatusPaid}
    /\ db.splits[d].settlement = NoSettlement

\* ... WHERE s.borrower_id = $1 AND e.payer_id = $2 AND s.status IN ('PENDING','PAID')
\*     AND s.settlement_id IS NULL ORDER BY s.id
GetPendingSplitsBetweenUsers(db, borrowerID, payerID) ==
    LET ids == SortedIds({d \in DOMAIN db.splits : Outstanding(db, d, borrowerID, payerID)})
    IN  [i \in 1..Len(ids) |-> [id |-> ids[i]] @@ db.splits[ids[i]]]

\* one iteration of LockSplitsToSettlement:
\* UPDATE splits SET settlement_id = $2 WHERE id = $1
LockSplitMutant(db, splitID, settlementID) ==
    db
LockSplit(db, splitID, settlementID) ==
    IF splitID \in DOMAIN db.splits
    THEN [db EXCEPT !.splits[splitID].settlement = settlementID]
    ELSE db

\* UPDATE splits SET settlement_id = NULL WHERE settlement_id = $1
UnlockSplitsFromSettlementMutant(db, settlementID) ==
    [db EXCEPT !.splits = [d \in DOMAIN @ |-> [@[d] EXCEPT !.settlement = NoSettlement]]]
UnlockSplitsFromSettlement(db, settlementID) ==
    [db EXCEPT !.splits = [d \in DOMAIN @ |->
        IF @[d].settlement = settlementID THEN [@[d] EXCEPT !.settlement = NoSettlement] ELSE @[d]]]

\* UPDATE splits SET status = 'CONFIRMED' WHERE settlement_id = $1
ConfirmSplitsBySettlement(db, settlementID) ==
    [db EXCEPT !.splits = [d \in DOMAIN @ |->
        IF @[d].settlement = settlementID THEN [@[d] EXCEPT !.status = SplitStatusConfirmed] ELSE @[d]]]

\* DELETE FROM splits WHERE expense_id = $1
DeleteSplitsOfExpense(db, id) ==
    [db EXCEPT !.splits = [d \in {x \in DOMAIN @ : @[x].expense # id} |-> @[d]]]

\* DELETE FROM expenses WHERE id = $1 (splits.expense_id ... ON DELETE CASCADE)
DeleteExpenseRow(db, id) ==
    [db |-> [DeleteSplitsOfExpense(db, id) EXCEPT
                !.expenses = [e \in DOMAIN @ \ {id} |-> @[e]]],
     err |-> IF id \in DOMAIN db.expenses THEN "OK" ELSE "StoreError"]

\* ---------------------------------------- store: settlement.Repository (SQL)
\* INSERT INTO settlements ...; CHECK (amount > 0), CHECK (payer_id != receiver_id)
RepoCreate(db, payerID, receiverID, amount) ==
    IF amount > 0 /\ payerID # receiverID
    THEN [db |-> [db EXCEPT !.settlements = Append(@, [payer |-> payerID,
                                                       receiver |-> receiverID,
                                                       amount |-> amount,
                                                       status |-> SettlementStatusPending])],
          err |-> "OK", id |-> Len(db.settlements) + 1]
    ELSE [db |-> db, err |-> "StoreError", id |-> 0]

GetByID(db, id) ==
    IF id \in 1..Len(db.settlements) THEN [id |-> id] @@ db.settlements[id] ELSE Nil

\* UPDATE settlements SET status = $2 WHERE id = $1
UpdateStatus(db, id, status) ==
    IF id \in 1..Len(db.settlements)
    THEN [db EXCEPT !.settlements[id].status = status]
    ELSE db

\* SUM(amount_owed) of the outstanding splits borrowerID owes payerID
OwedSum(db, borrowerID, payerID) ==
    LET rows == GetPendingSplitsBetweenUsers(db, borrowerID, payerID)
    IN  SumSeq([i \in 1..Len(rows) |-> rows[i].amount])

\* GetNetBalanceBetweenUsers without the subtraction of other_owes
GetNetBalanceBetweenUsersMutant(db, userID, otherUserID) ==
    OwedSum(db, userID, otherUserID)

\* (SELECT amount FROM user_owes) - (SELECT amount FROM other_owes)
GetNetBalanceBetweenUsers(db, userID, otherUserID) ==
    OwedSum(db, userID, otherUserID) - OwedSum(db, otherUserID, userID)

\* the rows of splits JOIN expenses that the net-balance CTEs read:
\* s.status IN ('PENDING', 'PAID') AND s.settlement_id IS NULL
Unsettled(db) ==
    {d \in DOMAIN db.splits :
        /\ db.splits[d].expense \in DOMAIN db.expenses
        /\ db.splits[d].status \in {SplitStatusPending, SplitStatusPaid}
        /\ db.splits[d].settlement = NoSettlement}

\* SUM(s.amount_owed) of a group of rows
GroupSum(db, group) ==
    LET ids == SortedIds(group)
    IN  SumSeq([i \in 1..Len(ids) |-> db.splits[ids[i]].amount])

\* ORDER BY ABS(net_amount) DESC over a set of rows; rows of equal magnitude
\* in the order of their user ids (the query leaves their order open)
RECURSIVE OrderByAbsDesc(_)
OrderByAbsDesc(rows) ==
    IF rows = {} THEN <<>>
    ELSE LET first == CHOOSE r \in rows : \A q \in rows :
                          \/ Abs(r.amount) > Abs(q.amount)
                          \/ Abs(r.amount) = Abs(q.amount) /\ r.user_id <= q.user_id
         IN  <<first>> \o OrderByAbsDesc(rows \ {first})

\* GetNetBalancesForUser with the rows of a locked split counted as well
GetNetBalancesForUserMutant(db, userID) ==
    LET rows == {d \in DOMAIN db.splits :
                    db.splits[d].status \in {SplitStatusPending, SplitStatusPaid}}
        owes(o) == GroupSum(db, {d \in rows : db.splits[d].borrower = userID
                                    /\ db.expenses[db.splits[d].expense].payer = o})
        owed(o) == GroupSum(db, {d \in rows : db.splits[d].borrower = o
                                    /\ db.expenses[db.splits[d].expense].payer = userID})
    IN  OrderByAbsDesc({[user_id |-> o, amount |-> owes(o) - owed(o)] :
                            o \in {x \in Users : owes(x) - owed(x) # 0}})

\* user_owes GROUP BY e.payer_id, others_owe GROUP BY s.borrower_id, their
\* FULL OUTER JOIN with COALESCE(uo.amount, 0) - COALESCE(oo.amount, 0),
\* JOIN users, WHERE net_amount != 0 ORDER BY ABS(net_amount) DESC
GetNetBalancesForUser(db, userID) ==
    LET user_owes == {d \in Unsettled(db) : db.splits[d].borrower = userID}
        others_owe == {d \in Unsettled(db) :
                          db.expenses[db.splits[d].expense].payer = userID}
        uo == {db.expenses[db.splits[d].expense].payer : d \in user_owes}
        oo == {db.splits[d].borrower : d \in others_owe}
        uoAmount(o) ==
            IF o \in uo
            THEN GroupSum(db, {d \in user_owes :
                                  db.expenses[db.splits[d].expense].payer = o})
            ELSE 0
        ooAmount(o) ==
            IF o \in oo
            THEN GroupSum(db, {d \in others_owe : db.splits[d].borrower = o})
            ELSE 0
        net_balances == {[user_id |-> o, amount |-> uoAmount(o) - ooAmount(o)] :
                            o \in uo \cup oo}
    IN  OrderByAbsDesc({nb \in net_balances : nb.user_id \in Users /\ nb.amount # 0})

\* -------------------------------------------------- service calls, by step
\* A call in flight is a record c: [pc, op, user, arg] and the locals the code
\* holds at that point (of the rows a query returned, the ids: the only column
\* the callers read).  Every step operator is the code between two store
\* calls, the store call included: it maps (db, c) to [db, c].  A call that
\* returns has pc = "done" with its error ("OK" for nil) and its result.

NewCall(op, user, arg, extra) ==
    extra @@ [pc |-> "start", op |-> op, user |-> user, arg |-> arg]

Goto(db, c, pc, locals) ==
    [db |-> db, c |-> ([pc |-> pc] @@ locals) @@ c]

Done(db, c, err, res) ==
    [db |-> db,
     c |-> [pc |-> "done", op |-> c.op, user |-> c.user, arg |-> c.arg, err |-> err, res |-> res]]

NoLocals == [pc |-> "start"]

\* the call record without the locals the code does not read again
Forget(c, names) == [f \in DOMAIN c \ names |-> c[f]]

Ids(rows) == [i \in 1..Len(rows) |-> rows[i].id]

\* ---- settlement.Service.CreateSettlement(initiatorID = c.user, otherUserID = c.arg)
CreateSettlementResult(c, id) ==
    [id |-> id, payer |-> c.payerID, receiver |-> c.receiverID, amount |-> c.amount,
     status |-> SettlementStatusPending,
     splitsInitiatorOwes |-> c.splitsInitiatorOwes, splitsOtherOwes |-> c.splitsOtherOwes]

CreateSettlementNetSelfMutant(db, c) ==
    LET netBalance == GetNetBalanceBetweenUsers(db, c.user, c.arg)
    IN  IF netBalance > 0
        THEN Goto(db, c, "cs_owes1",
                  [payerID |-> c.user, receiverID |-> c.arg, amount |-> Round(netBalance, 1)])
        ELSE IF netBalance < 0
        THEN Goto(db, c, "cs_owes1",
                  [payerID |-> c.arg, receiverID |-> c.user, amount |-> Round(-netBalance, 1)])
        ELSE Goto(db, c, "cs_zero1", NoLocals)
CreateSettlementNetMutant(db, c) ==
    LET netBalance == GetNetBalanceBetweenUsers(db, c.user, c.arg)
    IN  IF c.user = c.arg THEN Done(db, c, "CannotSettleSelf", Nil)
        ELSE IF netBalance > 0
        THEN Goto(db, c, "cs_owes1",
                  [payerID |-> c.arg, receiverID |-> c.user, amount |-> Round(netBalance, 1)])
        ELSE IF netBalance < 0
        THEN Goto(db, c, "cs_owes1",
                  [payerID |-> c.arg, receiverID |-> c.user, amount |-> Round(-netBalance, 1)])
        ELSE Goto(db, c, "cs_zero1", NoLocals)
CreateSettlementNet(db, c) ==
    LET netBalance == GetNetBalanceBetweenUsers(db, c.user, c.arg)
    IN  IF c.user = c.arg THEN Done(db, c, "CannotSettleSelf", Nil)
        ELSE IF netBalance > 0
        THEN Goto(db, c, "cs_owes1",
                  [payerID |-> c.user, receiverID |-> c.arg, amount |-> Round(netBalance, 1)])
        ELSE IF netBalance < 0
        THEN Goto(db, c, "cs_owes1",
                  [payerID |-> c.arg, receiverID |-> c.user, amount |-> Round(-netBalance, 1)])
        ELSE Goto(db, c, "cs_zero1", NoLocals)

CreateSettlementZero1(db, c) ==
    Goto(db, c, "cs_zero2", [splits1 |-> Ids(GetPendingSplitsBetweenUsers(db, c.user, c.arg))])

CreateSettlementZero2Mutant(db, c) ==
    Goto(db, Forget(c, {"splits1"}), "cs_owes1",
         [payerID |-> c.user, receiverID |-> c.arg, amount |-> 0])
CreateSettlementZero2(db, c) ==
    LET splits2 == GetPendingSplitsBetweenUsers(db, c.arg, c.user)
    IN  IF Len(c.splits1) = 0 /\ Len(splits2) = 0
        THEN Done(db, c, "AlreadySettled", Nil)
        ELSE Goto(db, Forget(c, {"splits1"}), "cs_owes1",
                  [payerID |-> c.user, receiverID |-> c.arg, amount |-> 0])

CreateSettlementOwes1Mutant(db, c) ==
    Goto(db, c, "cs_owes2", [splitsInitiatorOwes |-> <<>>])
CreateSettlementOwes1(db, c) ==
    Goto(db, c, "cs_owes2",
         [splitsInitiatorOwes |-> Ids(GetPendingSplitsBetweenUsers(db, c.user, c.arg))])

CreateSettlementOwes2(db, c) ==
    Goto(db, c, "cs_create",
         [splitsOtherOwes |-> Ids(GetPendingSplitsBetweenUsers(db, c.arg, c.user))])

CreateSettlementCreate(db, c) ==
    LET r == RepoCreate(db, c.payerID, c.receiverID, c.amount)
        allSplitIDs == c.splitsInitiatorOwes \o c.splitsOtherOwes
    IN  IF r.err # "OK" THEN Done(db, c, r.err, Nil)
        ELSE IF Len(allSplitIDs) = 0 THEN Done(r.db, c, "OK", CreateSettlementResult(c, r.id))
        ELSE Goto(r.db, c, "cs_lock", [settlementID |-> r.id, allSplitIDs |-> allSplitIDs, i |-> 1])

CreateSettlementLockMutant(db, c) ==
    IF c.i = Len(c.allSplitIDs)
    THEN Done(db, c, "OK", CreateSettlementResult(c, c.settlementID))
    ELSE Goto(LockSplit(db, c.allSplitIDs[c.i], c.settlementID), c, "cs_lock", [i |-> c.i + 1])
CreateSettlementLock(db, c) ==
    LET db2 == LockSplit(db, c.allSplitIDs[c.i], c.settlementID)
    IN  IF c.i = Len(c.allSplitIDs)
        THEN Done(db2, c, "OK", CreateSettlementResult(c, c.settlementID))
        ELSE Goto(db2, c, "cs_lock", [i |-> c.i + 1])

\* ---- settlement.Service.MarkAsPaid(settlementID = c.arg, userID = c.user)
MarkAsPaidGet(db, c) ==
    LET settlement == GetByID(db, c.arg)
    IN  IF settlement = Nil THEN Done(db, c, "SettlementNotFound", Nil)
        ELSE IF settlement.payer # c.user THEN Done(db, c, "NotPayer", Nil)
        ELSE IF settlement.status # SettlementStatusPending
        THEN Done(db, c, "InvalidStatusChange", Nil)
        ELSE Goto(db, c, "mp_update", NoLocals)

MarkAsPaidUpdate(db, c) ==
    LET db2 == UpdateStatus(db, c.arg, SettlementStatusPaid)
    IN  Done(db2, c, "OK", GetByID(db2, c.arg))

\* ---- settlement.Service.Confirm(settlementID = c.arg, userID = c.user)
ConfirmGetMutant(db, c) ==
    LET settlement == GetByID(db, c.arg)
    IN  IF settlement = Nil THEN Done(db, c, "SettlementNotFound", Nil)
        ELSE IF settlement.receiver # c.user THEN Done(db, c, "NotReceiver", Nil)
        ELSE Goto(db, c, "cf_update", NoLocals)
ConfirmGet(db, c) ==
    LET settlement == GetByID(db, c.arg)
    IN  IF settlement = Nil THEN Done(db, c, "SettlementNotFound", Nil)
        ELSE IF settlement.receiver # c.user THEN Done(db, c, "NotReceiver", Nil)
        ELSE IF settlement.status # SettlementStatusPaid
        THEN Done(db, c, "InvalidStatusChange", Nil)
        ELSE Goto(db, c, "cf_update", NoLocals)

ConfirmUpdate(db, c) ==
    LET db2 == UpdateStatus(db, c.arg, SettlementStatusConfirmed)
    IN  Goto(db2, c, "cf_splits", [settlement |-> GetByID(db2, c.arg)])

ConfirmSplits(db, c) ==
    Done(ConfirmSplitsBySettlement(db, c.arg), c, "OK", c.settlement)

\* ---- settlement.Service.Reject(settlementID = c.arg, userID = c.user)
RejectGet(db, c) ==
    LET settlement == GetByID(db, c.arg)
    IN  IF settlement = Nil THEN Done(db, c, "SettlementNotFound", Nil)
        ELSE IF settlement.receiver # c.user THEN Done(db, c, "NotReceiver", Nil)
        ELSE IF settlement.status # SettlementStatusPending
                /\ settlement.status # SettlementStatusPaid
        THEN Done(db, c, "InvalidStatusChange", Nil)
        ELSE Goto(db, c, "rj_update", NoLocals)

RejectUpdate(db, c) ==
    LET db2 == UpdateStatus(db, c.arg, SettlementStatusRejected)
    IN  Goto(db2, c, "rj_splits", [settlement |-> GetByID(db2, c.arg)])

RejectSplitsMutant(db, c) ==
    Done(db, c, "OK", c.settlement)
RejectSplits(db, c) ==
    Done(UnlockSplitsFromSettlement(db, c.arg), c, "OK", c.settlement)

\* ---- expense.Service.MarkSplitAsPaid(splitID = c.arg, borrowerID = c.user)
MarkSplitAsPaidGetMutant(db, c) ==
    LET split == GetSplitByID(db, c.arg)
    IN  IF split = Nil THEN Done(db, c, "SplitNotFound", Nil)
        ELSE IF split.borrower # c.user THEN Done(db, c, "NotBorrower", Nil)
        ELSE IF split.status # SplitStatusPending THEN Done(db, c, "InvalidStatusChange", Nil)
        ELSE Goto(db, c, "sp_update", NoLocals)
MarkSplitAsPaidGet(db, c) ==
    LET split == GetSplitByID(db, c.arg)
    IN  IF split = Nil THEN Done(db, c, "SplitNotFound", Nil)
        ELSE IF split.borrower # c.user THEN Done(db, c, "NotBorrower", Nil)
        ELSE IF split.settlement # NoSettlement THEN Done(db, c, "SplitLocked", Nil)
        ELSE IF split.status # SplitStatusPending THEN Done(db, c, "InvalidStatusChange", Nil)
        ELSE Goto(db, c, "sp_update", NoLocals)

MarkSplitAsPaidUpdate(db, c) ==
    LET db2 == UpdateSplitStatus(db, c.arg, SplitStatusPaid, NoReason)
    IN  Done(db2, c, "OK", GetSplitByID(db2, c.arg))

\* ---- expense.Service.ConfirmSplitPayment(splitID = c.arg, payerID = c.user)
ConfirmSplitPaymentGet(db, c) ==
    LET split == GetSplitByID(db, c.arg)
    IN  IF split = Nil THEN Done(db, c, "SplitNotFound", Nil)
        ELSE Goto(db, c, "sc_expense", [split |-> split])

\* expense.PayerID on a nil expense (the row was deleted after the split was
\* read) is a nil dereference: the request ends in a panic
ConfirmSplitPaymentExpense(db, c) ==
    LET expense == GetExpenseByID(db, c.split.expense)
    IN  IF expense = Nil THEN Done(db, c, "Panic", Nil)
        ELSE IF expense.payer # c.user THEN Done(db, c, "NotPayer", Nil)
        ELSE IF c.split.settlement # NoSettlement THEN Done(db, c, "SplitLocked", Nil)
        ELSE IF c.split.status # SplitStatusPaid THEN Done(db, c, "InvalidStatusChange", Nil)
        ELSE Goto(db, c, "sc_update", NoLocals)

ConfirmSplitPaymentUpdate(db, c) ==
    LET db2 == UpdateSplitStatus(db, c.arg, SplitStatusConfirmed, NoReason)
    IN  Done(db2, c, "OK", GetSplitByID(db2, c.arg))

\* ---- expense.Handler.DisputeSplit / expense.Service.DisputeSplit
\*      (splitID = c.arg, borrowerID = c.user, reason = c.reason)
DisputeSplitGetMutant(db, c) ==
    LET split == GetSplitByID(db, c.arg)
    IN  IF split = Nil THEN Done(db, c, "SplitNotFound", Nil)
        ELSE IF split.borrower # c.user THEN Done(db, c, "NotBorrower", Nil)
        ELSE IF split.status # SplitStatusPending /\ split.status # SplitStatusPaid
        THEN Done(db, c, "InvalidStatusChange", Nil)
        ELSE Goto(db, c, "sd_update", NoLocals)
DisputeSplitGet(db, c) ==
    LET split == GetSplitByID(db, c.arg)
    IN  IF c.reason = "" THEN Done(db, c, "BadRequest", Nil)
        ELSE IF split = Nil THEN Done(db, c, "SplitNotFound", Nil)
        ELSE IF split.borrower # c.user THEN Done(db, c, "NotBorrower", Nil)
        ELSE IF split.status # SplitStatusPending /\ split.status # SplitStatusPaid
        THEN Done(db, c, "InvalidStatusChange", Nil)
        ELSE Goto(db, c, "sd_update", NoLocals)

DisputeSplitUpdate(db, c) ==
    LET db2 == UpdateSplitStatus(db, c.arg, SplitStatusDisputed, c.reason)
    IN  Done(db2, c, "OK", GetSplitByID(db2, c.arg))

\* ---- expense.Service.CreateExpense(payerID = c.user, req = c.req)
CreateExpenseInsertMutant(db, c) ==
    LET calc == FactoryCalculate(c.req.splitType, c.req.amount, c.user, c.req.participants)
        r == RepoCreateExpense(db, c.user, c.req)
    IN  IF r.err # "OK" THEN Done(db, c, r.err, Nil)
        ELSE IF calc.err # "OK" THEN Done(r.db, c, calc.err, Nil)
        ELSE IF Len(calc.outputs) = 0
        THEN Done(r.db, c, "OK", [id |-> r.id, splits |-> <<>>])
        ELSE Goto(r.db, Forget(c, {"req"}), "ce_split",
                  [expenseID |-> r.id, splitOutputs |-> calc.outputs, i |-> 1, created |-> <<>>])
CreateExpenseInsert(db, c) ==
    LET calc == FactoryCalculate(c.req.splitType, c.req.amount, c.user, c.req.participants)
        r == RepoCreateExpense(db, c.user, c.req)
    IN  IF calc.err # "OK" THEN Done(db, c, calc.err, Nil)
        ELSE IF r.err # "OK" THEN Done(db, c, r.err, Nil)
        ELSE IF Len(calc.outputs) = 0
        THEN Done(r.db, c, "OK", [id |-> r.id, splits |-> <<>>])
        ELSE Goto(r.db, Forget(c, {"req"}), "ce_split",
                  [expenseID |-> r.id, splitOutputs |-> calc.outputs, i |-> 1, created |-> <<>>])

CreateExpenseSplitRollbackMutant(db, c) ==
    LET output == c.splitOutputs[c.i]
        r == CreateSplit(db, c.expenseID, output.userID, output.amountOwed)
        created == Append(c.created, r.db.splitSeq)
    IN  IF r.err # "OK" THEN Done(DeleteExpenseRow(db, c.expenseID).db, c, r.err, Nil)
        ELSE IF c.i = Len(c.splitOutputs)
        THEN Done(r.db, c, "OK", [id |-> c.expenseID, splits |-> created])
        ELSE Goto(r.db, c, "ce_split", [i |-> c.i + 1, created |-> created])
CreateExpenseSplitMutant(db, c) ==
    LET output == c.splitOutputs[Len(c.splitOutputs) - c.i + 1]
        r == CreateSplit(db, c.expenseID, output.userID, output.amountOwed)
        created == Append(c.created, r.db.splitSeq)
    IN  IF r.err # "OK" THEN Done(db, c, r.err, Nil)
        ELSE IF c.i = Len(c.splitOutputs)
        THEN Done(r.db, c, "OK", [id |-> c.expenseID, splits |-> created])
        ELSE Goto(r.db, c, "ce_split", [i |-> c.i + 1, created |-> created])
CreateExpenseSplit(db, c) ==
    LET output == c.splitOutputs[c.i]
        r == CreateSplit(db, c.expenseID, output.userID, output.amountOwed)
        created == Append(c.created, r.db.splitSeq)
    IN  IF r.err # "OK" THEN Done(db, c, r.err, Nil)
        ELSE IF c.i = Len(c.splitOutputs)
        THEN Done(r.db, c, "OK", [id |-> c.expenseID, splits |-> created])
        ELSE Goto(r.db, c, "ce_split", [i |-> c.i + 1, created |-> created])

\* ---- expense.Service.DeleteExpense(id = c.arg, userID = c.user)
DeleteExpenseGet(db, c) ==
    LET expense == GetExpenseByID(db, c.arg)
    IN  IF expense = Nil THEN Done(db, c, "ExpenseNotFound", Nil)
        ELSE IF expense.payer # c.user THEN Done(db, c, "NotPayer", Nil)
        ELSE Goto(db, c, "de_splits", NoLocals)

\* DeleteExpenseCheck refusing only on a CONFIRMED debt
DeleteExpenseCheckMutant(db, c) ==
    LET rows == GetSplitsByExpenseID(db, c.arg)
    IN  IF \E i \in 1..Len(rows) : rows[i].status = SplitStatusConfirmed
        THEN Done(db, c, "CannotDeleteExpense", Nil)
        ELSE Goto(db, c, "de_delsplits", NoLocals)

DeleteExpenseCheck(db, c) ==
    LET rows == GetSplitsByExpenseID(db, c.arg)
    IN  IF \E i \in 1..Len(rows) :
               rows[i].status \in {SplitStatusPaid, SplitStatusConfirmed}
        THEN Done(db, c, "CannotDeleteExpense", Nil)
        ELSE Goto(db, c, "de_delsplits", NoLocals)

DeleteExpenseSplits(db, c) ==
    Goto(DeleteSplitsOfExpense(db, c.arg), c, "de_delexpense", NoLocals)

DeleteExpenseExpense(db, c) ==
    LET r == DeleteExpenseRow(db, c.arg)
    IN  Done(r.db, c, r.err, Nil)

\* the step a call in flight takes next
StepOf(db, c) ==
    CASE c.op = "CreateSettlement" ->
            (CASE c.pc = "start" -> CreateSettlementNet(db, c)
               [] c.pc = "cs_zero1" -> CreateSettlementZero1(db, c)
               [] c.pc = "cs_zero2" -> CreateSettlementZero2(db, c)
               [] c.pc = "cs_owes1" -> CreateSettlementOwes1(db, c)
               [] c.pc = "cs_owes2" -> CreateSettlementOwes2(db, c)
               [] c.pc = "cs_create" -> CreateSettlementCreate(db, c)
               [] c.pc = "cs_lock" -> CreateSettlementLock(db, c))
      [] c.op = "MarkAsPaid" ->
            (CASE c.pc = "start" -> MarkAsPaidGet(db, c)
               [] c.pc = "mp_update" -> MarkAsPaidUpdate(db, c))
      [] c.op = "Confirm" ->
            (CASE c.pc = "start" -> ConfirmGet(db, c)
               [] c.pc = "cf_update" -> ConfirmUpdate(db, c)
               [] c.pc = "cf_splits" -> ConfirmSplits(db, c))
      [] c.op = "Reject" ->
            (CASE c.pc = "start" -> RejectGet(db, c)
               [] c.pc = "rj_update" -> RejectUpdate(db, c)
               [] c.pc = "rj_splits" -> RejectSplits(db, c))
      [] c.op = "MarkSplitAsPaid" ->
            (CASE c.pc = "start" -> MarkSplitAsPaidGet(db, c)
               [] c.pc = "sp_update" -> MarkSplitAsPaidUpdate(db, c))
      [] c.op = "ConfirmSplitPayment" ->
            (CASE c.pc = "start" -> ConfirmSplitPaymentGet(db, c)
               [] c.pc = "sc_expense" -> ConfirmSplitPaymentExpense(db, c)
               [] c.pc = "sc_update" -> ConfirmSplitPaymentUpdate(db, c))
      [] c.op = "DisputeSplit" ->
            (CASE c.pc = "start" -> DisputeSplitGet(db, c)
               [] c.pc = "sd_update" -> DisputeSplitUpdate(db, c))
      [] c.op = "CreateExpense" ->
            (CASE c.pc = "start" -> CreateExpenseInsert(db, c)
               [] c.pc = "ce_split" -> CreateExpenseSplit(db, c))
      [] c.op = "DeleteExpense" ->
            (CASE c.pc = "start" -> DeleteExpenseGet(db, c)
               [] c.pc = "de_splits" -> DeleteExpenseCheck(db, c)
               [] c.pc = "de_delsplits" -> DeleteExpenseSplits(db, c)
               [] c.pc = "de_delexpense" -> DeleteExpenseExpense(db, c))

\* a call run from its first step to its return with no other call in between
RECURSIVE Run(_, _)
Run(db, c) ==
    IF c.pc = "done" THEN [db |-> db, c |-> c]
    ELSE LET r == StepOf(db, c) IN Run(r.db, r.c)

\* the step of call c reaches its store call (it does not return before it)
ReachesStore(db, c) ==
    CASE c.op = "CreateSettlement" /\ c.pc = "start" -> c.user # c.arg
      [] c.op = "CreateExpense" /\ c.pc = "start" ->
             FactoryCalculate(c.req.splitType, c.req.amount, c.user, c.req.participants).err = "OK"
      [] OTHER -> TRUE

\* the step a call in flight takes when its store call returns an error: the
\* statement has no effect and every caller returns the error, except the two
\* reads of CreateSettlement's zero branch, whose error is dropped
\* (splits1, _ := ...; splits2, _ := ...) and whose rows are then nil
FailOf(db, c) ==
    CASE c.op = "CreateSettlement" /\ c.pc = "cs_zero1" ->
             Goto(db, c, "cs_zero2", [splits1 |-> <<>>])
      [] c.op = "CreateSettlement" /\ c.pc = "cs_zero2" ->
             IF Len(c.splits1) = 0
             THEN Done(db, c, "AlreadySettled", Nil)
             ELSE Goto(db, Forget(c, {"splits1"}), "cs_owes1",
                       [payerID |-> c.user, receiverID |-> c.arg, amount |-> 0])
      [] OTHER -> Done(db, c, "StoreError", Nil)

\* ------------------------------------------------------------------ inputs
\* participant lists of a request: every list of at most NumUsers users
UserLists == UNION {[1..n -> Users] : n \in 0..NumUsers}

Participants(l, percentage, amount) ==
    [i \in 1..Len(l) |-> [userID |-> l[i], percentage |-> percentage, amount |-> amount]]

\* the list of all users
Everyone == [i \in 1..NumUsers |-> i]

\* CreateExpenseRequest values the ledger is built from: every list split by an
\* exact amount per participant that adds up to the total; every total split
\* among all users evenly; the largest total split among all users by half a
\* share each; and a request whose split_type names no strategy
Requests ==
    {[amount |-> a * Len(l), splitType |-> SplitTypeExact,
      participants |-> Participants(l, None, Some(a))] : a \in 1..MaxAmount, l \in UserLists}
    \cup
    {[amount |-> t, splitType |-> SplitTypeEven,
      participants |-> Participants(Everyone, None, None)] : t \in Amounts}
    \cup
    {[amount |-> MaxAmount, splitType |-> SplitTypePercentage,
      participants |-> Participants(Everyone, Some(5000), None)],
     [amount |-> 1, splitType |-> "SHARES", participants |-> Participants(Everyone, None, None)]}

\* CreateExpenseRequest values the strategies and the persistence of their
\* outputs are exercised with: participant lists of at most NumUsers entries
\* naming any of People (the same user twice included), each entry with or
\* without its percentage / amount, valid or not
ParticipantLists(percentages, amounts) ==
    UNION {[1..n -> [userID : People, percentage : percentages, amount : amounts]] :
               n \in 0..NumUsers}

ExactAmounts == {None, Some(-1)} \cup {Some(a) : a \in 1..MaxAmount}
Percentages == {None, Some(5000), Some(10000), Some(10001)}

ExpenseRequests ==
    {[amount |-> t, splitType |-> SplitTypeExact, participants |-> ps] :
         t \in MaxAmount..(MaxAmount + 1), ps \in ParticipantLists({None}, ExactAmounts)}
    \cup
    {[amount |-> t, splitType |-> SplitTypeEven, participants |-> ps] :
         t \in -1..MaxAmount, ps \in ParticipantLists({None}, {None})}
    \cup
    {[amount |-> MaxAmount, splitType |-> SplitTypePercentage, participants |-> ps] :
         ps \in ParticipantLists(Percentages, {None})}
    \cup
    {[amount |-> 1, splitType |-> "SHARES", participants |-> Participants(Everyone, None, None)]}

\* CreateExpenseRequest values the arithmetic of the strategies is exercised
\* with: totals up to MaxTotal cents and lists of known users, any user named
\* any number of times, long enough for an even split among four and for a
\* percentage split among three
EntryLists(n, percentages, amounts) ==
    UNION {[1..k -> [userID : Users, percentage : percentages, amount : amounts]] :
               k \in 0..n}

StrategyPercentages == {None, Some(0), Some(2500), Some(5000), Some(10000)}
StrategyAmounts == {None, Some(-1)} \cup {Some(a) : a \in 0..MaxAmount}

StrategyRequests ==
    {[amount |-> t, splitType |-> SplitTypeEven, participants |-> ps] :
         t \in -1..MaxTotal, ps \in EntryLists(2 * NumUsers, {None}, {None})}
    \cup
    {[amount |-> t, splitType |-> SplitTypePercentage, participants |-> ps] :
         t \in -1..MaxTotal, ps \in EntryLists(NumUsers + 1, StrategyPercentages, {None})}
    \cup
    {[amount |-> t, splitType |-> SplitTypeExact, participants |-> ps] :
         t \in -1..MaxTotal, ps \in EntryLists(NumUsers, {None}, StrategyAmounts)}

StrategyInputs == [payer : Users, req : StrategyRequests]

SplitIds == 1..MaxSplits
SettlementIds == 1..MaxSettlements
ExpenseIds == 1..MaxExpenses

\* ------------------------------------------------------------ initial state
Idle == [pc |-> "idle", op |-> "none"]
NoInput == [payer |-> UnknownUser]
NotCalculated == [err |-> "none"]
NoFailure == [call |-> Idle, err |-> "none"]

Init ==
    /\ expenses = <<>>
    /\ splits = <<>>
    /\ settlements = <<>>
    /\ expenseSeq = 0
    /\ splitSeq = 0
    /\ calls = [p \in Procs |-> Idle]
    /\ ncalls = 0
    /\ lockedAs = <<>>
    /\ returned = {}
    /\ input = NoInput
    /\ outcome = NotCalculated
    /\ failed = NoFailure

\* ---------------------------------------------------------------- plumbing
InFlight(c) == c # Idle

\* the status each locked split had when the lock it carries was written
LockedAs(db, db2) ==
    [d \in {x \in DOMAIN db2.splits : db2.splits[x].settlement # NoSettlement} |->
        IF d \in DOMAIN lockedAs /\ db.splits[d].settlement = db2.splits[d].settlement
        THEN lockedAs[d]
        ELSE db2.splits[d].status]

\* the store after a step r = [db, c] of slot p, and the histories
Commit(p, r) ==
    /\ expenses' = r.db.expenses
    /\ splits' = r.db.splits
    /\ settlements' = r.db.settlements
    /\ expenseSeq' = r.db.expenseSeq
    /\ splitSeq' = r.db.splitSeq
    /\ calls' = [calls EXCEPT ![p] = IF r.c.pc = "done" THEN Idle ELSE r.c]
    /\ lockedAs' = LockedAs(DB, r.db)
    /\ returned' = IF r.c.pc = "done" /\ r.c.err = "OK" /\ r.c.op \in {"Confirm", "Reject"}
                   THEN returned \cup {<<r.c.op, r.c.arg>>}
                   ELSE returned

\* rows the calls in flight may still insert
PendingSettlements ==
    Cardinality({p \in Procs : /\ calls[p].op = "CreateSettlement"
                               /\ calls[p].pc \in {"cs_zero1", "cs_zero2", "cs_owes1",
                                                   "cs_owes2", "cs_create"}})

PendingSplits ==
    LET n(p) == IF calls[p].op = "CreateExpense" /\ calls[p].pc = "ce_split"
                THEN Len(calls[p].splitOutputs) - calls[p].i + 1 ELSE 0
    IN  SumSeq([p \in Procs |-> n(p)])

\* the bounds of the model: no more rows than MaxSettlements, MaxExpenses, MaxSplits
MayCreateSettlement == Len(settlements) + PendingSettlements < MaxSettlements

MayCreateExpense(payerID, req) ==
    /\ expenseSeq < MaxExpenses
    /\ splitSeq + PendingSplits + Len(filterPayer(payerID, req.participants)) <= MaxSplits

\* ------------------------------------------------------------ service calls
CreateSettlementCall(initiatorID, otherUserID) ==
    NewCall("CreateSettlement", initiatorID, otherUserID, <<>>)
MarkAsPaidCall(settlementID, userID) == NewCall("MarkAsPaid", userID, settlementID, <<>>)
ConfirmCall(settlementID, userID) == NewCall("Confirm", userID, settlementID, <<>>)
RejectCall(settlementID, userID) == NewCall("Reject", userID, settlementID, <<>>)
CreateExpenseCall(payerID, req) == NewCall("CreateExpense", payerID, 0, [req |-> req])
MarkSplitAsPaidCall(splitID, borrowerID) == NewCall("MarkSplitAsPaid", borrowerID, splitID, <<>>)
ConfirmSplitPaymentCall(splitID, payerID) == NewCall("ConfirmSplitPayment", payerID, splitID, <<>>)
DisputeSplitCall(splitID, borrowerID, reason) ==
    NewCall("DisputeSplit", borrowerID, splitID, [reason |-> reason])
DeleteExpenseCall(id, userID) == NewCall("DeleteExpense", userID, id, <<>>)

\* ------------------------------------------- SpecSeq: one call after another
\* the call c, made while no call is in flight, runs to its return
Sequential(c) ==
    /\ \A p \in Procs : ~InFlight(calls[p])
    /\ Commit(1, Run(DB, c))
    /\ UNCHANGED <<ncalls, input, outcome, failed>>

CreateSettlement(initiatorID, otherUserID) ==
    /\ MayCreateSettlement
    /\ Sequential(CreateSettlementCall(initiatorID, otherUserID))

MarkAsPaid(settlementID, userID) ==
    /\ settlementID \in SettlementIds
    /\ Sequential(MarkAsPaidCall(settlementID, userID))

Confirm(settlementID, userID) ==
    /\ settlementID \in SettlementIds
    /\ Sequential(ConfirmCall(settlementID, userID))

Reject(settlementID, userID) ==
    /\ settlementID \in SettlementIds
    /\ Sequential(RejectCall(settlementID, userID))

CreateExpense(payerID, req) ==
    /\ MayCreateExpense(payerID, req)
    /\ Sequential(CreateExpenseCall(payerID, req))

MarkSplitAsPaid(splitID, borrowerID) ==
    /\ splitID \in SplitIds
    /\ Sequential(MarkSplitAsPaidCall(splitID, borrowerID))

ConfirmSplitPayment(splitID, payerID) ==
    /\ splitID \in SplitIds
    /\ Sequential(ConfirmSplitPaymentCall(splitID, payerID))

DisputeSplit(splitID, borrowerID, reason) ==
    /\ splitID \in SplitIds
    /\ Sequential(DisputeSplitCall(splitID, borrowerID, reason))

DeleteExpense(id, userID) ==
    /\ id \in ExpenseIds
    /\ Sequential(DeleteExpenseCall(id, userID))

NextSeq ==
    \/ \E i \in Users, o \in Users : CreateSettlement(i, o)
    \/ \E s \in SettlementIds, u \in Users : MarkAsPaid(s, u)
    \/ \E s \in SettlementIds, u \in Users : Confirm(s, u)
    \/ \E s \in SettlementIds, u \in Users : Reject(s, u)
    \/ \E u \in Users, req \in Requests : CreateExpense(u, req)
    \/ \E d \in SplitIds, u \in Users : MarkSplitAsPaid(d, u)
    \/ \E d \in SplitIds, u \in Users : ConfirmSplitPayment(d, u)
    \/ \E d \in SplitIds, u \in Users, reason \in Reasons : DisputeSplit(d, u, reason)
    \/ \E e \in ExpenseIds, u \in Users : DeleteExpense(e, u)

SpecSeq == Init /\ [][NextSeq]_vars

\* ------------------- SpecExpense: expenses only, from every kind of request
\* CreateExpense with any request of ExpenseRequests, and DeleteExpense, one
\* call after another
NextExpense ==
    \/ \E u \in Users, req \in ExpenseRequests : CreateExpense(u, req)
    \/ \E e \in ExpenseIds, u \in Users : DeleteExpense(e, u)

SpecExpense == Init /\ [][NextExpense]_vars

\* ---------------- SpecFail: one call at a time, store calls that may fail
\* One request is served at a time, store call by store call; any store call
\* may return an error.
FBegin(c) ==
    /\ ~InFlight(calls[1])
    /\ Commit(1, StepOf(DB, c))
    /\ failed' = NoFailure
    /\ UNCHANGED <<ncalls, input, outcome>>

\* what the step r of a call leaves in failed.err
Returned(r, pending) == IF r.c.pc = "done" THEN r.c.err ELSE pending

FBeginFails(c) ==
    /\ ~InFlight(calls[1])
    /\ ReachesStore(DB, c)
    /\ Commit(1, FailOf(DB, c))
    /\ failed' = [call |-> c, err |-> Returned(FailOf(DB, c), "pending")]
    /\ UNCHANGED <<ncalls, input, outcome>>

FStep ==
    /\ InFlight(calls[1])
    /\ Commit(1, StepOf(DB, calls[1]))
    /\ failed' = IF failed = NoFailure THEN failed
                 ELSE [failed EXCEPT !.err = Returned(StepOf(DB, calls[1]), "pending")]
    /\ UNCHANGED <<ncalls, input, outcome>>

FStepFails ==
    /\ InFlight(calls[1])
    /\ Commit(1, FailOf(DB, calls[1]))
    /\ failed' = [call |-> calls[1], err |-> Returned(FailOf(DB, calls[1]), "pending")]
    /\ UNCHANGED <<ncalls, input, outcome>>

FCall(c) == FBegin(c) \/ FBeginFails(c)

NextFail ==
    \/ \E i \in Users, o \in Users :
           MayCreateSettlement /\ FCall(CreateSettlementCall(i, o))
    \/ \E s \in SettlementIds, u \in Users : FCall(MarkAsPaidCall(s, u))
    \/ \E s \in SettlementIds, u \in Users : FCall(ConfirmCall(s, u))
    \/ \E s \in SettlementIds, u \in Users : FCall(RejectCall(s, u))
    \/ \E u \in Users, req \in Requests :
           MayCreateExpense(u, req) /\ FCall(CreateExpenseCall(u, req))
    \/ FStep
    \/ FStepFails

SpecFail == Init /\ [][NextFail]_vars

\* ------------------- SpecStrategy: one CreateExpense on an empty ledger
\* The request is drawn from StrategyInputs; the call runs to its return and
\* outcome keeps its error and the outputs its strategy calculated.
InitStrategy ==
    /\ expenses = <<>>
    /\ splits = <<>>
    /\ settlements = <<>>
    /\ expenseSeq = 0
    /\ splitSeq = 0
    /\ calls = [p \in Procs |-> Idle]
    /\ ncalls = 0
    /\ lockedAs = <<>>
    /\ returned = {}
    /\ input \in StrategyInputs
    /\ outcome = NotCalculated
    /\ failed = NoFailure

CreateExpenseOnInput ==
    /\ input # NoInput
    /\ outcome = NotCalculated
    /\ failed = NoFailure
    /\ LET r == Run(DB, CreateExpenseCall(input.payer, input.req))
       IN  /\ Commit(1, r)
           /\ outcome' = [err |-> r.c.err,
                          calc |-> FactoryCalculate(input.req.splitType, input.req.amount,
                                                    input.payer, input.req.participants)]
    /\ UNCHANGED <<ncalls, input, failed>>

NextStrategy == CreateExpenseOnInput

SpecStrategy == InitStrategy /\ [][NextStrategy]_vars

\* ------------------------------------- Spec: the store calls interleave
\* slot p begins the call c with its first store call
Begin(p, c) ==
    /\ ~InFlight(calls[p])
    /\ ncalls < MaxCalls
    /\ ncalls' = ncalls + 1
    /\ Commit(p, StepOf(DB, c))
    /\ UNCHANGED <<input, outcome, failed>>

BeginCreateSettlement(p, initiatorID, otherUserID) ==
    /\ MayCreateSettlement
    /\ Begin(p, CreateSettlementCall(initiatorID, otherUserID))

BeginMarkAsPaid(p, settlementID, userID) ==
    /\ settlementID \in SettlementIds
    /\ Begin(p, MarkAsPaidCall(settlementID, userID))

BeginConfirm(p, settlementID, userID) ==
    /\ settlementID \in SettlementIds
    /\ Begin(p, ConfirmCall(settlementID, userID))

BeginReject(p, settlementID, userID) ==
    /\ settlementID \in SettlementIds
    /\ Begin(p, RejectCall(settlementID, userID))

BeginCreateExpense(p, payerID, req) ==
    /\ MayCreateExpense(payerID, req)
    /\ Begin(p, CreateExpenseCall(payerID, req))

BeginMarkSplitAsPaid(p, splitID, borrowerID) ==
    /\ splitID \in SplitIds
    /\ Begin(p, MarkSplitAsPaidCall(splitID, borrowerID))

BeginConfirmSplitPayment(p, splitID, payerID) ==
    /\ splitID \in SplitIds
    /\ Begin(p, ConfirmSplitPaymentCall(splitID, payerID))

BeginDisputeSplit(p, splitID, borrowerID, reason) ==
    /\ splitID \in SplitIds
    /\ Begin(p, DisputeSplitCall(splitID, borrowerID, reason))

BeginDeleteExpense(p, id, userID) ==
    /\ id \in ExpenseIds
    /\ Begin(p, DeleteExpenseCall(id, userID))

\* the call in flight in slot p makes its next store call
Step(p) ==
    /\ InFlight(calls[p])
    /\ Commit(p, StepOf(DB, calls[p]))
    /\ UNCHANGED <<ncalls, input, outcome, failed>>

Next ==
    \E p \in Procs :
        \/ \E i \in Users, o \in Users : BeginCreateSettlement(p, i, o)
        \/ \E s \in SettlementIds, u \in Users : BeginMarkAsPaid(p, s, u)
        \/ \E s \in SettlementIds, u \in Users : BeginConfirm(p, s, u)
        \/ \E s \in SettlementIds, u \in Users : BeginReject(p, s, u)
        \/ \E u \in Users, req \in Requests : BeginCreateExpense(p, u, req)
        \/ \E d \in SplitIds, u \in Users : BeginMarkSplitAsPaid(p, d, u)
        \/ \E d \in SplitIds, u \in Users : BeginConfirmSplitPayment(p, d, u)
        \/ \E d \in SplitIds, u \in Users, reason \in Reasons : BeginDisputeSplit(p, d, u, reason)
        \/ \E e \in ExpenseIds, u \in Users : BeginDeleteExpense(p, e, u)
        \/ Step(p)

Spec == Init /\ [][Next]_vars

\* --------------------------------------------------------------- properties
\* the vocabulary of the properties, read off the tables

\* debt d is owed by borrowerID to payerID
Owes(d, borrowerID, payerID) ==
    splits[d].borrower = borrowerID /\ expenses[splits[d].expense].payer = payerID

\* debt d is unlocked with status PENDING or PAID
Open(d) ==
    /\ splits[d].settlement = NoSettlement
    /\ splits[d].status \in {SplitStatusPending, SplitStatusPaid}

\* the open debts borrowerID owes payerID, and all the open debts between two users
OpenDebts(borrowerID, payerID) ==
    {d \in DOMAIN splits : Open(d) /\ Owes(d, borrowerID, payerID)}

OpenBetween(a, b) == OpenDebts(a, b) \cup OpenDebts(b, a)

\* the sum of the amounts of the debts S in the table tbl
SumAmounts(tbl, S) ==
    LET ids == SortedIds(S) IN SumSeq([k \in 1..Len(ids) |-> tbl[ids[k]].amount])

\* net = what a owes b minus what b owes a, over the open debts
NetOfOpenDebts(a, b) ==
    SumAmounts(splits, OpenDebts(a, b)) - SumAmounts(splits, OpenDebts(b, a))

\* the three single-debt operations on debt d by user u, each run to its return
DebtAttempts(d, u) ==
    {Run(DB, MarkSplitAsPaidCall(d, u)), Run(DB, ConfirmSplitPaymentCall(d, u))}
    \cup {Run(DB, DisputeSplitCall(d, u, reason)) : reason \in Reasons}

\* C1: on a debt whose settlement-lock reference is set, MarkSplitAsPaid,
\* ConfirmSplitPayment and DisputeSplit by any user each fail with SplitLocked
\* and leave the debt's status, dispute reason and lock unchanged.
C1_LockedDebtRefusesEveryAttempt ==
    \A d \in DOMAIN splits :
        splits[d].settlement # NoSettlement =>
            \A u \in Users : \A r \in DebtAttempts(d, u) :
                /\ r.c.err = "SplitLocked"
                /\ r.db.splits[d] = splits[d]

\* the lock sets two CreateSettlement calls in flight hold are disjoint
LockSetsDisjoint ==
    \A p \in Procs, q \in Procs :
        (/\ p # q
         /\ calls[p].op = "CreateSettlement" /\ calls[p].pc = "cs_lock"
         /\ calls[q].op = "CreateSettlement" /\ calls[q].pc = "cs_lock")
        => \A i \in 1..Len(calls[p].allSplitIDs), j \in 1..Len(calls[q].allSplitIDs) :
               calls[p].allSplitIDs[i] # calls[q].allSplitIDs[j]

\* C2: when CreateSettlement calls interleave store call by store call, a lock
\* reference that is set is never overwritten with the id of another
\* settlement, and no debt is in the lock set of two settlements.
C2_NoDebtLockedTwice ==
    [][/\ \A d \in DOMAIN splits \cap DOMAIN splits' :
              splits[d].settlement # NoSettlement =>
                  splits'[d].settlement \in {splits[d].settlement, NoSettlement}
       /\ LockSetsDisjoint']_vars

\* C3: when CreateSettlement returns successfully (also with other callers'
\* store calls between its reads and writes), the settlement's amount is the
\* absolute value of (sum of the debts it locked that the initiator owes minus
\* sum of the debts it locked that the other user owes), and its payer is the
\* side that owes more.
C3_AmountIsNetOfLockedDebts ==
    [][\A p \in Procs :
          (/\ calls[p].op = "CreateSettlement"
           /\ calls'[p] = Idle
           /\ StepOf(DB, calls[p]).c.err = "OK")
          => LET res == StepOf(DB, calls[p]).c.res
                 initiator == calls[p].user
                 other == calls[p].arg
                 all == res.splitsInitiatorOwes \o res.splitsOtherOwes
                 locked == {all[k] : k \in 1..Len(all)} \cap DOMAIN splits'
                 owed(b) == SumAmounts(splits', {d \in locked : splits'[d].borrower = b})
             IN  /\ res.amount = Abs(owed(initiator) - owed(other))
                 /\ owed(initiator) > owed(other) => res.payer = initiator
                 /\ owed(other) > owed(initiator) => res.payer = other]_vars

\* C4: a CreateSettlement(initiator, other) that runs without interleaving and
\* succeeds locks every debt that was open between the two users, in both
\* directions, to the new settlement's id with its status unchanged, and the
\* outstanding-debt query for the pair then returns nothing in either direction.
C4_CreateSettlementLocksAllOpenDebts ==
    \A i \in Users, o \in Users :
        LET r == Run(DB, CreateSettlementCall(i, o))
        IN  r.c.err = "OK" =>
                /\ r.c.res.id = Len(settlements) + 1
                /\ \A d \in OpenBetween(i, o) :
                       /\ r.db.splits[d].settlement = r.c.res.id
                       /\ r.db.splits[d].status = splits[d].status
                /\ GetPendingSplitsBetweenUsers(r.db, i, o) = <<>>
                /\ GetPendingSplitsBetweenUsers(r.db, o, i) = <<>>

\* C4 witness: a PENDING settlement holds a PAID debt of one user and a PENDING
\* debt of the other, both locked by its CreateSettlement.
C4_Witness ==
    \E s \in 1..Len(settlements) : \E d1 \in DOMAIN splits, d2 \in DOMAIN splits :
        /\ settlements[s].status = SettlementStatusPending
        /\ splits[d1].settlement = s /\ splits[d2].settlement = s
        /\ splits[d1].borrower # splits[d2].borrower
        /\ splits[d1].status = SplitStatusPaid /\ lockedAs[d1] = SplitStatusPaid
        /\ splits[d2].status = SplitStatusPending

\* C5: in every state reached after a Confirm of settlement S has returned
\* successfully, every debt whose lock reference is S has status CONFIRMED.
C5_ConfirmedSettlementHoldsConfirmedDebts ==
    \A s \in SettlementIds :
        <<"Confirm", s>> \in returned =>
            \A d \in DOMAIN splits :
                splits[d].settlement = s => splits[d].status = SplitStatusConfirmed

\* C6: when a Reject of settlement S returns successfully, no debt is locked to
\* S and every debt that was locked to S has the status it had at the moment it
\* was locked.
C6_RejectRestoresLockedDebts ==
    [][\A s \in SettlementIds :
          (<<"Reject", s>> \in returned' /\ <<"Reject", s>> \notin returned)
          => /\ \A d \in DOMAIN splits' : splits'[d].settlement # s
             /\ \A d \in DOMAIN splits \cap DOMAIN splits' :
                    splits[d].settlement = s =>
                        /\ splits'[d].settlement = NoSettlement
                        /\ splits'[d].status = lockedAs[d]]_vars

\* the status changes a settlement may make
SettlementTransitions ==
    {<<SettlementStatusPending, SettlementStatusPaid>>,
     <<SettlementStatusPaid, SettlementStatusConfirmed>>,
     <<SettlementStatusPending, SettlementStatusRejected>>,
     <<SettlementStatusPaid, SettlementStatusRejected>>}

\* C7: a settlement's stored status changes only PENDING->PAID, PAID->CONFIRMED,
\* PENDING->REJECTED and PAID->REJECTED (so never once it is CONFIRMED or
\* REJECTED), for every interleaving of MarkAsPaid, Confirm and Reject calls.
C7_SettlementStatusFollowsTransitions ==
    [][\A s \in 1..Len(settlements) :
          \/ settlements'[s].status = settlements[s].status
          \/ <<settlements[s].status, settlements'[s].status>> \in SettlementTransitions]_vars

\* C8: once a debt's status is DISPUTED or CONFIRMED it never changes again,
\* under any sequence of debt and settlement operations.
C8_DisputedAndConfirmedAreFinal ==
    [][\A d \in DOMAIN splits \cap DOMAIN splits' :
          splits[d].status \in {SplitStatusDisputed, SplitStatusConfirmed}
          => splits'[d].status = splits[d].status]_vars

\* C9: for a CreateSettlement(initiator, other) that runs without interleaving,
\* with net = open debts the initiator owes minus open debts the other owes:
\* net > 0 gives payer = initiator, receiver = other, amount = net; net < 0 gives
\* payer = other, receiver = initiator, amount = -net; and net is the value the
\* net-balance query returns for (initiator, other) in the same state.
C9_SettlementFollowsNet ==
    \A i \in Users, o \in Users :
        i # o =>
            LET net == NetOfOpenDebts(i, o)
                r == Run(DB, CreateSettlementCall(i, o))
                row == [payer |-> IF net > 0 THEN i ELSE o,
                        receiver |-> IF net > 0 THEN o ELSE i,
                        amount |-> Abs(net),
                        status |-> SettlementStatusPending]
            IN  /\ GetNetBalanceBetweenUsers(DB, i, o) = net
                /\ net # 0 =>
                       /\ r.c.err = "OK"
                       /\ r.db.settlements = Append(settlements, row)
                       /\ r.c.res.payer = row.payer
                       /\ r.c.res.receiver = row.receiver
                       /\ r.c.res.amount = row.amount

\* C9 witness: a settlement of amount 1 whose payer owed 2 and was owed 1, both
\* debts locked by its CreateSettlement.
C9_Witness ==
    \E s \in 1..Len(settlements) : \E d1 \in DOMAIN splits, d2 \in DOMAIN splits :
        /\ settlements[s].amount = 1
        /\ splits[d1].settlement = s /\ splits[d2].settlement = s
        /\ splits[d1].borrower = settlements[s].payer /\ splits[d1].amount = 2
        /\ splits[d2].borrower = settlements[s].receiver /\ splits[d2].amount = 1

\* C10: if two distinct users have no open debt between them in either
\* direction, CreateSettlement for that pair fails with AlreadySettled, creates
\* no settlement and changes no debt.
C10_NothingOpenIsAlreadySettled ==
    \A i \in Users, o \in Users :
        (i # o /\ OpenBetween(i, o) = {}) =>
            LET r == Run(DB, CreateSettlementCall(i, o))
            IN  /\ r.c.err = "AlreadySettled"
                /\ r.db = DB

\* C10 witness: every debt between two users is locked or closed, some debt
\* exists, and CreateSettlement for the pair answers AlreadySettled.
C10_Witness ==
    \E i \in Users, o \in Users :
        /\ i # o
        /\ OpenBetween(i, o) = {}
        /\ \E d \in DOMAIN splits : splits[d].status = SplitStatusConfirmed
        /\ \E d \in DOMAIN splits : splits[d].status = SplitStatusDisputed
        /\ Run(DB, CreateSettlementCall(i, o)).c.err = "AlreadySettled"

\* C11: if open debts exist between two distinct users and their net is exactly
\* zero, CreateSettlement(initiator, other) succeeds: it stores a PENDING
\* settlement of amount 0 with payer = initiator and receiver = other and locks
\* every one of those debts to it.
C11_ZeroNetSettlementSucceeds ==
    \A i \in Users, o \in Users :
        (i # o /\ OpenBetween(i, o) # {} /\ NetOfOpenDebts(i, o) = 0) =>
            LET r == Run(DB, CreateSettlementCall(i, o))
            IN  /\ r.c.err = "OK"
                /\ r.db.settlements = Append(settlements, [payer |-> i, receiver |-> o, amount |-> 0,
                                                           status |-> SettlementStatusPending])
                /\ \A d \in OpenBetween(i, o) :
                       r.db.splits[d].settlement = Len(settlements) + 1

\* C12: CreateSettlement with initiator = other user fails with CannotSettleSelf
\* and changes nothing in the store; in every reachable state every settlement
\* has payer # receiver and amount >= 0.
C12_NoSelfSettlement ==
    /\ \A i \in Users :
           LET r == Run(DB, CreateSettlementCall(i, i))
           IN  r.c.err = "CannotSettleSelf" /\ r.db = DB
    /\ \A s \in 1..Len(settlements) :
           settlements[s].payer # settlements[s].receiver /\ settlements[s].amount >= 0

\* C12 witness: a settlement is stored, its payer still has an open debt, and
\* the payer's CreateSettlement with themselves is refused.
C12_Witness ==
    \E s \in 1..Len(settlements) : \E d \in DOMAIN splits :
        /\ Open(d) /\ splits[d].borrower = settlements[s].payer
        /\ Run(DB, CreateSettlementCall(settlements[s].payer, settlements[s].payer)).c.err
               = "CannotSettleSelf"

\* C13: MarkAsPaid by a user other than the settlement's payer fails with
\* NotPayer; Confirm or Reject by a user other than its receiver fails with
\* NotReceiver; the right user calling from a status the operation does not
\* allow fails with InvalidStatusChange; every failed call leaves the store
\* (settlement statuses, debt statuses and locks) unchanged.
C13_SettlementGuards ==
    \A s \in 1..Len(settlements), u \in Users :
        LET st == settlements[s]
            mp == Run(DB, MarkAsPaidCall(s, u))
            cf == Run(DB, ConfirmCall(s, u))
            rj == Run(DB, RejectCall(s, u))
        IN  /\ u # st.payer => mp.c.err = "NotPayer"
            /\ (u = st.payer /\ st.status # SettlementStatusPending)
                   => mp.c.err = "InvalidStatusChange"
            /\ u # st.receiver => (cf.c.err = "NotReceiver" /\ rj.c.err = "NotReceiver")
            /\ (u = st.receiver /\ st.status # SettlementStatusPaid)
                   => cf.c.err = "InvalidStatusChange"
            /\ (u = st.receiver
                /\ st.status \notin {SettlementStatusPending, SettlementStatusPaid})
                   => rj.c.err = "InvalidStatusChange"
            /\ \A r \in {mp, cf, rj} : r.c.err # "OK" => r.db = DB

\* C13 witness: a PAID settlement holding a locked debt, on which MarkAsPaid by
\* the payer is an invalid status change and Confirm by the payer is refused,
\* next to a REJECTED settlement on which the receiver's Reject is refused.
C13_Witness ==
    \E s \in 1..Len(settlements), t \in 1..Len(settlements) :
        /\ settlements[s].status = SettlementStatusPaid
        /\ \E d \in DOMAIN splits : splits[d].settlement = s
        /\ Run(DB, MarkAsPaidCall(s, settlements[s].payer)).c.err = "InvalidStatusChange"
        /\ Run(DB, ConfirmCall(s, settlements[s].payer)).c.err = "NotReceiver"
        /\ settlements[t].status = SettlementStatusRejected
        /\ Run(DB, RejectCall(t, settlements[t].receiver)).c.err = "InvalidStatusChange"

\* C14: MarkSplitAsPaid changes a debt to PAID only when the caller is the
\* debt's borrower and the debt is unlocked and PENDING; ConfirmSplitPayment
\* changes it to CONFIRMED only when the caller is the payer of the debt's
\* expense and the debt is unlocked and PAID; in every other case the call
\* returns an error and the store is unchanged.
C14_DebtGuards ==
    \A d \in DOMAIN splits, u \in Users :
        LET sp == Run(DB, MarkSplitAsPaidCall(d, u))
            sc == Run(DB, ConfirmSplitPaymentCall(d, u))
            unlocked == splits[d].settlement = NoSettlement
            mayPay == /\ u = splits[d].borrower
                      /\ unlocked
                      /\ splits[d].status = SplitStatusPending
            mayConfirm == /\ u = expenses[splits[d].expense].payer
                          /\ unlocked
                          /\ splits[d].status = SplitStatusPaid
        IN  /\ IF mayPay
               THEN /\ sp.c.err = "OK"
                    /\ sp.db.splits = [splits EXCEPT ![d].status = SplitStatusPaid]
               ELSE sp.c.err # "OK" /\ sp.db = DB
            /\ IF mayConfirm
               THEN /\ sc.c.err = "OK"
                    /\ sc.db.splits = [splits EXCEPT ![d].status = SplitStatusConfirmed]
               ELSE sc.c.err # "OK" /\ sc.db = DB

\* C14 witness: one debt was paid and confirmed on its own (CONFIRMED and
\* unlocked); another is PENDING and locked, and its borrower's MarkSplitAsPaid
\* is refused.
C14_Witness ==
    \E d1 \in DOMAIN splits, d2 \in DOMAIN splits :
        /\ splits[d1].status = SplitStatusConfirmed /\ splits[d1].settlement = NoSettlement
        /\ splits[d2].status = SplitStatusPending /\ splits[d2].settlement # NoSettlement
        /\ Run(DB, MarkSplitAsPaidCall(d2, splits[d2].borrower)).c.err = "SplitLocked"

\* C15: a DisputeSplit with an empty reason is rejected and leaves the store
\* unchanged; a debt becomes DISPUTED only by the last store call of a
\* DisputeSplit made by the debt's borrower with a non-empty reason, which it
\* then carries; a DISPUTED debt always carries a non-empty reason.
C15_DisputeNeedsBorrowerAndReason ==
    /\ [](\A d \in DOMAIN splits, u \in Users :
             LET r == Run(DB, DisputeSplitCall(d, u, ""))
             IN  r.c.err # "OK" /\ r.db = DB)
    /\ [](\A d \in DOMAIN splits :
             splits[d].status = SplitStatusDisputed => splits[d].reason \notin {"", NoReason})
    /\ [][\A d \in DOMAIN splits' :
             (/\ splits'[d].status = SplitStatusDisputed
              /\ (d \notin DOMAIN splits \/ splits[d].status # SplitStatusDisputed))
             => \E p \in Procs :
                    /\ calls[p].op = "DisputeSplit" /\ calls[p].pc = "sd_update"
                    /\ calls'[p] = Idle
                    /\ calls[p].arg = d
                    /\ calls[p].user = splits'[d].borrower
                    /\ calls[p].reason # ""
                    /\ splits'[d].reason = calls[p].reason]_vars

\* C15 witness: a debt is DISPUTED with the reason its borrower gave, while the
\* borrower of another, open debt is refused a dispute with an empty reason.
C15_Witness ==
    \E d1 \in DOMAIN splits, d2 \in DOMAIN splits :
        /\ splits[d1].status = SplitStatusDisputed /\ splits[d1].reason = "wrong amount"
        /\ Open(d2)
        /\ Run(DB, DisputeSplitCall(d2, splits[d2].borrower, "")).c.err = "BadRequest"

\* C16: a debt's settlement-lock reference is changed only by a store call of
\* CreateSettlement (which sets it) or of Reject (which clears it); a debt is
\* created unlocked, by CreateExpense; no step changes a debt's amount.  (So
\* MarkSplitAsPaid, ConfirmSplitPayment, DisputeSplit, MarkAsPaid and Confirm
\* leave every lock reference and amount unchanged.)
C16_OnlySettlementEngineLocks ==
    [][/\ \A d \in DOMAIN splits' \ DOMAIN splits :
              /\ splits'[d].settlement = NoSettlement
              /\ \E p \in Procs : calls[p].op = "CreateExpense" /\ calls[p] # calls'[p]
       /\ \A d \in DOMAIN splits \cap DOMAIN splits' :
              /\ splits'[d].amount = splits[d].amount
              /\ splits'[d].settlement # splits[d].settlement
                     => \E p \in Procs :
                            /\ calls[p] # calls'[p]
                            /\ \/ /\ calls[p].op = "CreateSettlement"
                                  /\ splits'[d].settlement # NoSettlement
                               \/ /\ calls[p].op = "Reject"
                                  /\ splits'[d].settlement = NoSettlement]_vars

\* C16 witness: a debt was locked by a CreateSettlement, unlocked by the Reject
\* of that settlement and locked again by the next CreateSettlement.
C16_Witness ==
    /\ <<"Reject", 1>> \in returned
    /\ \E d \in DOMAIN splits : splits[d].settlement = 2

\* the row CreateSplit stores for output k of a strategy, for expense e
DebtOf(e, output) ==
    [expense |-> e, borrower |-> output.userID, amount |-> output.amountOwed,
     status |-> SplitStatusPending, reason |-> NoReason, settlement |-> NoSettlement]

\* what the selected strategy computes for request req of payer u
Computed(u, req) == FactoryCalculate(req.splitType, req.amount, u, req.participants)

\* C17: a successful CreateExpense stores the expense and exactly one debt per
\* output of the selected strategy, in the strategy's order (ascending ids),
\* each PENDING, unlocked, without dispute reason and with the amount the
\* strategy computed; it changes no other debt.
C17_CreateExpensePersistsOutputs ==
    \A u \in Users, req \in ExpenseRequests :
        LET r == Run(DB, CreateExpenseCall(u, req))
            calc == Computed(u, req)
            n == Len(calc.outputs)
        IN  r.c.err = "OK" =>
                /\ calc.err = "OK"
                /\ r.db.expenses = (expenseSeq + 1 :> [payer |-> u]) @@ expenses
                /\ DOMAIN r.db.splits = DOMAIN splits \cup (splitSeq + 1)..(splitSeq + n)
                /\ \A d \in DOMAIN splits : r.db.splits[d] = splits[d]
                /\ \A k \in 1..n :
                       r.db.splits[splitSeq + k] = DebtOf(expenseSeq + 1, calc.outputs[k])
                /\ r.c.res.splits = [k \in 1..n |-> splitSeq + k]

\* C17 witness: an expense stored with two debts of different amounts, in the
\* order of the request's participants.
C17_Witness ==
    \E e \in DOMAIN expenses : \E d \in DOMAIN splits :
        /\ d + 1 \in DOMAIN splits
        /\ splits[d] = DebtOf(e, [userID |-> splits[d].borrower, amountOwed |-> 2])
        /\ splits[d + 1] = DebtOf(e, [userID |-> splits[d].borrower, amountOwed |-> 1])

\* no debt is owed by the payer of its expense
NoDebtToOneself ==
    \A d \in DOMAIN splits :
        /\ splits[d].expense \in DOMAIN expenses
        /\ splits[d].borrower # expenses[splits[d].expense].payer

\* the user ids of a list of participants or of outputs
UserIDs(rows) == [k \in 1..Len(rows) |-> rows[k].userID]

\* C18: in every reachable state no debt has a borrower equal to the payer of
\* its expense; for every request, the output of each of the three strategies
\* names exactly the participant entries whose user is not the payer, in order.
C18_PayerNeverOwes ==
    /\ NoDebtToOneself
    /\ \A u \in Users, req \in ExpenseRequests :
           LET calc == Computed(u, req)
           IN  calc.err = "OK" =>
                   UserIDs(calc.outputs)
                       = SelectSeq(UserIDs(req.participants), LAMBDA x : x # u)

\* C18 witness: debts are stored, and for each of the three split types some
\* request that lists the payer among its participants is accepted with a
\* non-empty output.
C18_Witness ==
    /\ splits # <<>>
    /\ \A t \in {SplitTypeEven, SplitTypePercentage, SplitTypeExact} :
           \E u \in Users, req \in ExpenseRequests :
               /\ req.splitType = t
               /\ \E k \in 1..Len(req.participants) : req.participants[k].userID = u
               /\ Computed(u, req).err = "OK" /\ Len(Computed(u, req).outputs) > 0
               /\ Run(DB, CreateExpenseCall(u, req)).c.err = "OK"

\* C19: if the split type is not EVEN, PERCENTAGE or EXACT (UnknownSplitType),
\* or the selected strategy's validation fails, CreateExpense returns that
\* error and stores neither an expense nor a debt.
C19_RejectedRequestPersistsNothing ==
    \A u \in Users, req \in ExpenseRequests :
        LET r == Run(DB, CreateExpenseCall(u, req))
            calc == Computed(u, req)
            known == req.splitType \in {SplitTypeEven, SplitTypePercentage, SplitTypeExact}
        IN  /\ ~known => calc.err = "UnknownSplitType"
            /\ (known /\ Len(req.participants) = 0) => calc.err = "NoParticipants"
            /\ calc.err # "OK" => (r.c.err = calc.err /\ r.db = DB)

\* C19 witness: with expenses and debts stored, a request of an unknown split
\* type, an EXACT request whose amounts do not add up and a PERCENTAGE request
\* whose percentages do not add up are each refused with their own error.
C19_Witness ==
    /\ expenses # <<>> /\ splits # <<>>
    /\ \A e \in {"UnknownSplitType", "InvalidExactAmounts", "InvalidPercentages"} :
           \E u \in Users, req \in ExpenseRequests :
               Run(DB, CreateExpenseCall(u, req)).c.err = e

\* the store refuses the debt of this output: amount_owed < 0 or a borrower
\* that is no user
Refused(output) == output.amountOwed < 0 \/ output.userID \notin Users

\* C20: if persisting a debt fails during CreateExpense, the call returns the
\* store's error, and the expense row and the debts persisted before the failing
\* one remain in the store (no rollback): an expense with fewer debts than the
\* strategy computed.
C20_FailedDebtLeavesPartialExpense ==
    \A u \in Users, req \in ExpenseRequests :
        LET r == Run(DB, CreateExpenseCall(u, req))
            calc == Computed(u, req)
            n == Len(calc.outputs)
        IN  (/\ calc.err = "OK"
             /\ req.amount > 0
             /\ \E k \in 1..n : Refused(calc.outputs[k]))
            => LET f == CHOOSE k \in 1..n :
                            /\ Refused(calc.outputs[k])
                            /\ \A j \in 1..(k - 1) : ~Refused(calc.outputs[j])
               IN  /\ r.c.err = "StoreError"
                   /\ r.db.expenses = (expenseSeq + 1 :> [payer |-> u]) @@ expenses
                   /\ DOMAIN r.db.splits = DOMAIN splits \cup (splitSeq + 1)..(splitSeq + f - 1)
                   /\ \A d \in DOMAIN splits : r.db.splits[d] = splits[d]
                   /\ \A k \in 1..(f - 1) :
                          r.db.splits[splitSeq + k] = DebtOf(expenseSeq + 1, calc.outputs[k])

\* C20 witness: with an expense and a debt already stored, some request for
\* which the strategy computes two debts fails on the second: the call returns
\* the store's error and leaves its expense with one debt.
C20_Witness ==
    /\ expenses # <<>> /\ splits # <<>>
    /\ \E u \in Users, req \in ExpenseRequests :
           LET r == Run(DB, CreateExpenseCall(u, req))
           IN  /\ Len(Computed(u, req).outputs) = 2
               /\ r.c.err = "StoreError"
               /\ expenseSeq + 1 \in DOMAIN r.db.expenses
               /\ DOMAIN r.db.splits = DOMAIN splits \cup {splitSeq + 1}
               /\ r.db.splits[splitSeq + 1].expense = expenseSeq + 1

\* the debts of expense e
DebtsOfExpense(e) == {d \in DOMAIN splits : splits[d].expense = e}

\* C21: DeleteExpense by a user other than the expense's payer fails with
\* NotPayer, and by the payer fails with CannotDeleteExpense when a debt of
\* the expense is PAID or CONFIRMED; both leave the store unchanged.  In every
\* other case the call removes the expense and all its debts, and nothing else.
C21_DeleteExpenseGuards ==
    \A e \in DOMAIN expenses, u \in Users :
        LET r == Run(DB, DeleteExpenseCall(e, u))
            settled == \E d \in DebtsOfExpense(e) :
                           splits[d].status \in {SplitStatusPaid, SplitStatusConfirmed}
        IN  /\ u # expenses[e].payer => (r.c.err = "NotPayer" /\ r.db = DB)
            /\ (u = expenses[e].payer /\ settled)
                   => (r.c.err = "CannotDeleteExpense" /\ r.db = DB)
            /\ (u = expenses[e].payer /\ ~settled)
                   => /\ r.c.err = "OK"
                      /\ r.db.expenses = [x \in DOMAIN expenses \ {e} |-> expenses[x]]
                      /\ r.db.splits =
                             [d \in DOMAIN splits \ DebtsOfExpense(e) |-> splits[d]]
                      /\ r.db.settlements = settlements

\* C21 witness: one expense with a PAID debt, whose payer is refused, next to
\* an expense with a PENDING debt, which its payer deletes with the debt while
\* the other user is refused as not the payer.
C21_Witness ==
    \E e \in DOMAIN expenses, f \in DOMAIN expenses, u \in Users :
        /\ \E d \in DebtsOfExpense(e) : splits[d].status = SplitStatusPaid
        /\ Run(DB, DeleteExpenseCall(e, expenses[e].payer)).c.err = "CannotDeleteExpense"
        /\ \E d \in DebtsOfExpense(f) : splits[d].status = SplitStatusPending
        /\ Run(DB, DeleteExpenseCall(f, expenses[f].payer)).c.err = "OK"
        /\ DebtsOfExpense(f) \cap DOMAIN Run(DB, DeleteExpenseCall(f, expenses[f].payer)).db.splits = {}
        /\ u # expenses[f].payer
        /\ Run(DB, DeleteExpenseCall(f, u)).c.err = "NotPayer"

\* C22: in every reachable state and for every pair of users a, b, the net
\* balance the pairwise query returns from a to b is the negation of the one
\* it returns from b to a.
C22_NetIsAntisymmetric ==
    \A a \in Users, b \in Users :
        GetNetBalanceBetweenUsers(DB, a, b) = -GetNetBalanceBetweenUsers(DB, b, a)

\* C22 witness: two users with open debts in both directions and a net
\* balance that is not zero.
C22_Witness ==
    \E a \in Users, b \in Users :
        /\ OpenDebts(a, b) # {}
        /\ OpenDebts(b, a) # {}
        /\ GetNetBalanceBetweenUsers(DB, a, b) > 0
        /\ GetNetBalanceBetweenUsers(DB, b, a) < 0

Calculated(t) == outcome # NotCalculated /\ input.req.splitType = t

\* the entries of the request's list that name user u
EntriesOf(u) == SelectSeq(input.req.participants, LAMBDA p : p.userID = u)

\* the amounts the strategy calculated, in the order of its outputs
OutputAmounts ==
    [i \in 1..Len(outcome.calc.outputs) |-> outcome.calc.outputs[i].amountOwed]

\* C24: EVEN with a total T >= 0 of whole cents and N >= 1 participants that
\* include the payer once: the request is accepted and the debtors' amounts
\* plus one share round2(T / N) add up to T exactly.
C24_EvenSharesAddUp ==
    (/\ Calculated(SplitTypeEven)
     /\ input.req.amount >= 0
     /\ Len(EntriesOf(input.payer)) = 1)
        => /\ outcome.calc.err = "OK"
           /\ SumSeq(OutputAmounts)
                  + roundToTwoDecimals(input.req.amount, Len(input.req.participants))
                  = input.req.amount

\* C24 witness: an even split among three with the payer listed once, in
\* which the first debtor's amount carries a rounding difference.
C24_Witness ==
    /\ Calculated(SplitTypeEven)
    /\ Len(EntriesOf(input.payer)) = 1
    /\ Len(input.req.participants) = 3
    /\ outcome.calc.err = "OK"
    /\ OutputAmounts[1] # OutputAmounts[2]

\* C25: EVEN, every accepted request, whether or not the payer is in the
\* list of N participants: every debtor but the first owes round2(T / N), and
\* the first owes that plus a signed remainder of at most N / 2 cents.
C25_EvenRemainderIsSmall ==
    (Calculated(SplitTypeEven) /\ outcome.calc.err = "OK")
        => LET N == Len(input.req.participants)
               share == roundToTwoDecimals(input.req.amount, N)
           IN  /\ \A i \in 2..Len(OutputAmounts) : OutputAmounts[i] = share
               /\ Len(OutputAmounts) >= 1 => 2 * Abs(OutputAmounts[1] - share) <= N

\* the payer's percentage as PercentageCalculate reads it: that of the first
\* entry naming the payer, 0 when no entry does
PayerPercentage ==
    IF Len(EntriesOf(input.payer)) = 0 THEN 0 ELSE EntriesOf(input.payer)[1].percentage[1]

\* C26: PERCENTAGE with a total T of whole cents, every accepted request: the
\* debtors' amounts add up to round2(T * (100 - payerPct) / 100), payerPct
\* being the payer's percentage, or 0 when the payer is not listed.
C26_PercentageDebtsAddUp ==
    (Calculated(SplitTypePercentage) /\ outcome.calc.err = "OK")
        => SumSeq(OutputAmounts)
               = roundToTwoDecimals(input.req.amount * (10000 - PayerPercentage), 10000)

\* C27: EXACT accepts a request exactly when its list is not empty, its total
\* is not negative, every participant states an amount that is not negative
\* and the amounts, the payer's included, add up to the total within 0.01.  A
\* missing amount (none being negative) yields MissingExactAmount, a sum off
\* by more than 0.01 yields InvalidExactAmounts, and on acceptance every
\* debtor's debt is the amount stated for that debtor.
C27_ExactAcceptsWithinOneCent ==
    Calculated(SplitTypeExact)
        => LET ps == input.req.participants
               stated == \A i \in 1..Len(ps) : ps[i].amount # None
               negative == \E i \in 1..Len(ps) : ps[i].amount # None /\ ps[i].amount[1] < 0
               sum == SumSeq([i \in 1..Len(ps) |->
                                 IF ps[i].amount = None THEN 0 ELSE ps[i].amount[1]])
               sound == Len(ps) > 0 /\ input.req.amount >= 0 /\ ~negative
               debtors == SelectSeq(ps, LAMBDA p : p.userID # input.payer)
           IN  /\ outcome.calc.err = "OK"
                      <=> (sound /\ stated /\ Abs(sum - input.req.amount) <= 1)
               /\ (sound /\ ~stated) => outcome.calc.err = "MissingExactAmount"
               /\ (sound /\ stated /\ Abs(sum - input.req.amount) > 1)
                      => outcome.calc.err = "InvalidExactAmounts"
               /\ outcome.calc.err = "OK"
                      => outcome.calc.outputs =
                             [i \in 1..Len(debtors) |->
                                 [userID |-> debtors[i].userID,
                                  amountOwed |-> debtors[i].amount[1]]]

\* C28: EVEN with a total T >= 0 of whole cents and a list that includes the
\* payer: every amount calculated for a debtor, the first debtor's after the
\* remainder included, is at least 0.
C28_EvenAmountsNotNegative ==
    (/\ Calculated(SplitTypeEven)
     /\ input.req.amount >= 0
     /\ Len(EntriesOf(input.payer)) >= 1
     /\ outcome.calc.err = "OK")
        => \A i \in 1..Len(OutputAmounts) : OutputAmounts[i] >= 0

\* C29: PERCENTAGE with a total of whole cents, every accepted request: every
\* amount calculated for a debtor, the last debtor's after the remainder
\* included, is at least 0.
C29_PercentageAmountsNotNegative ==
    (Calculated(SplitTypePercentage) /\ outcome.calc.err = "OK")
        => \A i \in 1..Len(OutputAmounts) : OutputAmounts[i] >= 0

\* the share of the expense the payer bears without a debt: round2(T / N) for
\* EVEN, round2(T * payerPct / 100) for PERCENTAGE, the payer's stated amount
\* for EXACT (of the first entry naming the payer; nothing when none does)
PayerShare ==
    LET T == input.req.amount
    IN  CASE input.req.splitType = SplitTypeEven ->
                 roundToTwoDecimals(T, Len(input.req.participants))
          [] input.req.splitType = SplitTypePercentage ->
                 roundToTwoDecimals(T * PayerPercentage, 10000)
          [] input.req.splitType = SplitTypeExact ->
                 IF Len(EntriesOf(input.payer)) = 0 THEN 0
                 ELSE EntriesOf(input.payer)[1].amount[1]

\* C30: for every expense created successfully, with any strategy, the sum of
\* its stored debts plus the payer's implicit share differs from the
\* expense's amount by at most 0.01.
C30_DebtsAndPayerShareCoverExpense ==
    (outcome # NotCalculated /\ outcome.err = "OK")
        => Abs(SumAmounts(splits, DebtsOfExpense(1)) + PayerShare - input.req.amount) <= 1

\* Strategy.Validate of the strategy the request names
Validated ==
    CASE input.req.splitType = SplitTypeEven ->
             EvenValidate(input.req.amount, input.req.participants)
      [] input.req.splitType = SplitTypePercentage ->
             PercentageValidate(input.req.amount, input.req.participants)
      [] input.req.splitType = SplitTypeExact ->
             ExactValidate(input.req.amount, input.req.participants)

\* the request's list is not empty and names nobody but the payer
PayerAlone ==
    /\ Len(input.req.participants) >= 1
    /\ \A i \in 1..Len(input.req.participants) :
           input.req.participants[i].userID = input.payer

\* C31: for each of EVEN, PERCENTAGE and EXACT, a request that passes the
\* strategy's validation and in which the payer is the only participant is
\* calculated to an empty list of debts and no error.
C31_PayerAloneOwesNothing ==
    \A t \in {SplitTypeEven, SplitTypePercentage, SplitTypeExact} :
        (Calculated(t) /\ PayerAlone /\ Validated = "OK")
            => outcome.calc = Ok(<<>>)

\* C31 witness: an EXACT request of the payer alone, stating the whole total,
\* calculated without error to no debt, and the expense stored without debts.
C31_Witness ==
    /\ Calculated(SplitTypeExact)
    /\ Len(input.req.participants) = 1
    /\ PayerAlone
    /\ input.req.amount > 0
    /\ outcome.calc = Ok(<<>>)
    /\ outcome.err = "OK"
    /\ DOMAIN expenses = {1}
    /\ splits = <<>>

\* ---- store failures, under SpecFail
\* the store reads of CreateSettlement: the net balance, the two reads of the
\* zero branch, and the two reads of the debts to lock
CreateSettlementReads == {"start", "cs_zero1", "cs_zero2", "cs_owes1", "cs_owes2"}

\* C32: a CreateSettlement in which a store read failed (the net-balance read
\* or a read of the outstanding debts in either direction) returns the
\* store's failure: it does not answer AlreadySettled, nor anything else.
C32_FailedReadIsReturned ==
    (/\ failed.call.op = "CreateSettlement"
     /\ failed.call.pc \in CreateSettlementReads
     /\ failed.err # "pending")
        => failed.err = "StoreError"

\* the debts a CreateSettlement had locked when its lock step failed
LockedBeforeFailure ==
    {failed.call.allSplitIDs[k] : k \in 1..(failed.call.i - 1)}

PartialLockFailure ==
    /\ failed.call.op = "CreateSettlement"
    /\ failed.call.pc = "cs_lock"
    /\ failed.err = "StoreError"
    /\ failed.call.i > 1

\* the store after CreateSettlement is invoked again for the pair of the failed call
Retried(initiatorID) ==
    Run(DB, CreateSettlementCall(initiatorID,
            IF initiatorID = failed.call.user THEN failed.call.arg ELSE failed.call.user))

\* C33: when the lock step of a CreateSettlement has failed after locking some of
\* the debts it collected, a CreateSettlement invoked again for the same pair, by
\* either of the two users, leaves each of those debts locked to the settlement
\* of the failed attempt.
C33_RetryKeepsEarlierLocks ==
    PartialLockFailure =>
        \A u \in {failed.call.user, failed.call.arg} :
            \A d \in LockedBeforeFailure :
                /\ d \in DOMAIN Retried(u).db.splits
                /\ splits[d].settlement = failed.call.settlementID
                /\ Retried(u).db.splits[d].settlement = failed.call.settlementID

\* C33 witness: after a partial lock failure the retry succeeds and locks the
\* debt the failed attempt did not reach to a settlement of its own.
C33_Witness ==
    /\ PartialLockFailure
    /\ LET r == Retried(failed.call.user)
       IN  /\ r.c.err = "OK"
           /\ r.c.res.id # failed.call.settlementID
           /\ \E d \in DOMAIN splits :
                  /\ d \notin LockedBeforeFailure
                  /\ splits[d].settlement = NoSettlement
                  /\ r.db.splits[d].settlement = r.c.res.id

\* the bulk update of the locked debts failed after the status was written
DebtUpdateFailure(op, pc) ==
    /\ failed.call.op = op
    /\ failed.call.pc = pc
    /\ failed.err = "StoreError"

\* C34: when Confirm (Reject) has written the settlement's status and the bulk
\* update of the locked debts has failed, the same operation invoked again by the
\* receiver completes the update: the debts locked to the settlement end
\* CONFIRMED (for Reject: no debt stays locked to it).
C34_RetryCompletesDebtUpdate ==
    /\ DebtUpdateFailure("Confirm", "cf_splits") =>
           LET r == Run(DB, ConfirmCall(failed.call.arg, failed.call.user))
           IN  \A d \in DOMAIN r.db.splits :
                   r.db.splits[d].settlement = failed.call.arg
                       => r.db.splits[d].status = SplitStatusConfirmed
    /\ DebtUpdateFailure("Reject", "rj_splits") =>
           LET r == Run(DB, RejectCall(failed.call.arg, failed.call.user))
           IN  \A d \in DOMAIN r.db.splits :
                   r.db.splits[d].settlement # failed.call.arg

\* C35: when no store call fails, in every state where no operation is in
\* progress no debt is locked to a REJECTED settlement, whatever the interleaving
\* of the steps of CreateSettlement, MarkAsPaid, Confirm and Reject.
C35_NoDebtLockedToRejected ==
    (\A p \in Procs : calls[p] = Idle) =>
        \A d \in DOMAIN splits :
            splits[d].settlement # NoSettlement =>
                settlements[splits[d].settlement].status # SettlementStatusRejected

\* debt d is locked to a settlement that is PENDING or PAID
LockedToUnresolved(d) ==
    /\ splits[d].settlement # NoSettlement
    /\ settlements[splits[d].settlement].status
           \in {SettlementStatusPending, SettlementStatusPaid}

\* C36: no operation deletes a debt that is locked to a PENDING or PAID
\* settlement; in particular DeleteExpense does not remove such a debt.
C36_LockedDebtIsNotDeleted ==
    [][\A d \in DOMAIN splits : LockedToUnresolved(d) => d \in DOMAIN splits']_vars

\* CreateSettlement for the pair answers AlreadySettled, whoever initiates it
AlreadySettledBetween(db, a, b) ==
    /\ Run(db, CreateSettlementCall(a, b)).c.err = "AlreadySettled"
    /\ Run(db, CreateSettlementCall(b, a)).c.err = "AlreadySettled"

\* settlement s is between a and b
SettlementBetween(tbl, s, a, b) ==
    {tbl[s].payer, tbl[s].receiver} = {a, b}

\* the calls that neither create a debt nor reject a settlement
CallsBesidesExpenseAndReject ==
    {CreateSettlementCall(u, v) : u \in Users, v \in Users}
    \cup {MarkAsPaidCall(s, u) : s \in SettlementIds, u \in Users}
    \cup {ConfirmCall(s, u) : s \in SettlementIds, u \in Users}
    \cup {MarkSplitAsPaidCall(d, u) : d \in SplitIds, u \in Users}
    \cup {ConfirmSplitPaymentCall(d, u) : d \in SplitIds, u \in Users}
    \cup {DisputeSplitCall(d, u, reason) : d \in SplitIds, u \in Users, reason \in Reasons}
    \cup {DeleteExpenseCall(e, u) : e \in ExpenseIds, u \in Users}

\* PENDING or PAID settlements that hold locked debts
HoldingSettlements ==
    {s \in 1..Len(settlements) :
        /\ settlements[s].status \in {SettlementStatusPending, SettlementStatusPaid}
        /\ \E d \in DOMAIN splits : splits[d].settlement = s}

OtherDebtsUntouched(db, s) ==
    /\ DOMAIN db.splits = DOMAIN splits
    /\ \A d \in DOMAIN splits : splits[d].settlement # s => db.splits[d] = splits[d]

\* C38: Confirm and Reject of a settlement S, by any user and whatever they
\* return, change only debts whose lock reference is S: every other debt, unlocked
\* or locked to another settlement, keeps its status and its lock.
C38_ConfirmAndRejectTouchOnlyOwnDebts ==
    \A s \in SettlementIds, u \in Users :
        /\ OtherDebtsUntouched(Run(DB, ConfirmCall(s, u)).db, s)
        /\ OtherDebtsUntouched(Run(DB, RejectCall(s, u)).db, s)

\* C38 witness: a PAID settlement holding a locked debt, next to a debt that is
\* unlocked and a state where Confirm confirms the locked debt and Reject
\* unlocks it.
C38_Witness ==
    \E s \in DOMAIN settlements, d \in DOMAIN splits, x \in DOMAIN splits :
        /\ splits[d].settlement = s
        /\ splits[d].status # SplitStatusConfirmed
        /\ splits[x].settlement = NoSettlement
        /\ Open(x)
        /\ LET cf == Run(DB, ConfirmCall(s, settlements[s].receiver))
               rj == Run(DB, RejectCall(s, settlements[s].receiver))
           IN  /\ cf.c.err = "OK"
               /\ cf.db.splits[d].status = SplitStatusConfirmed
               /\ rj.c.err = "OK"
               /\ rj.db.splits[d].settlement = NoSettlement

\* the store after the settlement made by the successful call r is rejected by
\* its receiver, after its payer has marked it paid when paidFirst
RejectedAfter(r, paidFirst) ==
    LET db1 == IF paidFirst
               THEN Run(r.db, MarkAsPaidCall(r.c.res.id, r.c.res.payer)).db
               ELSE r.db
    IN  Run(db1, RejectCall(r.c.res.id, r.c.res.receiver))

\* db has the debts and the net balances of the store
SameDebtsAndBalances(db) ==
    /\ db.splits = splits
    /\ \A x \in Users, y \in Users :
           GetNetBalanceBetweenUsers(db, x, y) = GetNetBalanceBetweenUsers(DB, x, y)
    /\ \A x \in Users : GetNetBalancesForUser(db, x) = GetNetBalancesForUser(DB, x)

\* C39: in a sequential run, a successful CreateSettlement followed, with no
\* other operation in between, by Reject (with or without MarkAsPaid before it)
\* leaves every debt with the status and lock it had before the CreateSettlement
\* and every net balance unchanged, and a new CreateSettlement for the pair then
\* yields a settlement with the same payer, receiver and amount.
C39_CreateThenRejectRestores ==
    \A a \in Users, b \in Users :
        LET r == Run(DB, CreateSettlementCall(a, b))
        IN  r.c.err = "OK" =>
                \A paidFirst \in BOOLEAN :
                    LET rj == RejectedAfter(r, paidFirst)
                        again == Run(rj.db, CreateSettlementCall(a, b))
                    IN  /\ rj.c.err = "OK"
                        /\ SameDebtsAndBalances(rj.db)
                        /\ again.c.err = "OK"
                        /\ again.c.res.payer = r.c.res.payer
                        /\ again.c.res.receiver = r.c.res.receiver
                        /\ again.c.res.amount = r.c.res.amount

\* C39 witness: a CreateSettlement that locks two debts, one PENDING and one
\* PAID, and whose settlement is rejected after having been marked paid.
C39_Witness ==
    \E a \in Users, b \in Users, d \in DOMAIN splits, x \in DOMAIN splits :
        LET r == Run(DB, CreateSettlementCall(a, b))
        IN  /\ r.c.err = "OK"
            /\ splits[d].status = SplitStatusPending
            /\ splits[x].status = SplitStatusPaid
            /\ r.db.splits[d].settlement = r.c.res.id
            /\ r.db.splits[x].settlement = r.c.res.id
            /\ RejectedAfter(r, TRUE).c.err = "OK"
            /\ RejectedAfter(r, TRUE).db.splits = splits

\* the call of CreateSettlement(a, b) after its net-balance read and the two
\* reads of its zero branch
AfterZeroBranch(a, b) ==
    StepOf(DB, StepOf(DB, StepOf(DB, CreateSettlementCall(a, b)).c).c).c

====
